---- MODULE Spec2Model ----
(***************************************************************************)
(* Model of the metrics aggregation engine of github-analytics             *)
(* (src/utils/analytics-metrics.ts, with isBot of bot-detection).          *)
(*                                                                         *)
(* Numbers.  A JavaScript number that the analyzers compute by division    *)
(* (a percentage, a median, the backlog score) is an IEEE 754 binary64     *)
(* number [s |-> sign, m |-> mantissa, e |-> exponent], every operation    *)
(* rounded to nearest, ties to even, as the engine rounds it; counts stay  *)
(* TLA+ integers.                                                          *)
(*                                                                         *)
(* Route.  The GET handler of the analytics route is a process per request *)
(* whose steps are its awaited calls; the cache table holds one row for the *)
(* repository.  A cache function reads new Date() when it is called and    *)
(* its query runs when the awaited call returns, a step later.  The loop   *)
(* of the handler over the three windows is modelled apart, call by call,  *)
(* on the batch the fetchers returned.                                     *)
(*                                                                         *)
(* Time.  An ISO-8601 timestamp string is a record [d |-> day, m |-> minute*)
(* of that day]; parseISO turns it into minutes since day 0.  The process  *)
(* is taken to run in UTC (no daylight-saving shifts).  Day 0 is 1 January *)
(* of a common year, a Sunday, and the years around it are common years.   *)
(*                                                                         *)
(* Arrays.  A call of an analyzer is also followed through the arrays it   *)
(* is given and the arrays it makes: filter, a spread copy, map and slice  *)
(* make a new array, sort orders the array it is called on.  What the call *)
(* leaves in the caller's arrays is written back to the caller's variables.*)
(***************************************************************************)
EXTENDS Integers, Sequences, FiniteSets, TLC

VARIABLES
    call,                \* the engine function the caller is about to apply
    numbers,             \* argument of median
    medianResult,        \* <<>> before the call, <<value>> after it
    issues,              \* issue batch of the lifecycle and friction analyzers
    timeRange,           \* window tag of calculateIssueLifecycleMetrics
    prs,                 \* PR batch of the reviewer and friction analyzers
    openIssues,          \* arguments of calculateBacklogHealthMetrics
    openPRs,
    allPRs,
    issuesData,          \* the issues the route has fetched
    now,                 \* what new Date() returns, minutes since day 0
    issueLifecycle,      \* results: <<>> before the call, <<record>> after it
    reviewerInsights,
    contributorFriction,
    backlogHealth,
    actor,               \* argument of isBot
    isBotResult,         \* <<>> before the call, <<boolean>> after it
    cache,               \* the githubAnalyticsCache row of the repository, or Null
    clock,               \* the server's time in minutes
    requests             \* per GET request: where its handler stands, its window, its response

vars ==
    <<call, numbers, medianResult, issues, timeRange, prs, openIssues, openPRs, allPRs,
      issuesData, now, issueLifecycle, reviewerInsights, contributorFriction, backlogHealth,
      actor, isBotResult, cache, clock, requests>>

routeVars == <<cache, clock, requests>>

-----------------------------------------------------------------------------
(* Bounds of the model *)

MaxNumbers == 4        \* longest sequence given to median
MaxOpenIssues == 3     \* most open issues in a backlog
MaxCrowdedIssues == 13 \* open issues in a crowded backlog
MaxOpenPRs == 3        \* most open PRs in a backlog
MaxAllPRs == 2         \* most records in the historical PR batch
MaxIssues == 2         \* most issues in a batch
MaxPRs == 2            \* most PRs in a batch
MaxRequests == 2       \* most GET requests in flight for the repository

-----------------------------------------------------------------------------
(* JavaScript numbers: IEEE 754 binary64, round to nearest, ties to even *)

Abs(x) == IF x < 0 THEN -x ELSE x

\* A natural number of any size is the sequence of its digits in base
\* Limb = 2^LimbBits, least significant first, without a leading zero digit
LimbBits == 15
Limb == 2 ^ LimbBits

\* Significant bits of a binary64 number
MantissaBits == 53

RECURSIVE NatOf(_)
NatOf(k) == IF k = 0 THEN <<>> ELSE <<k % Limb>> \o NatOf(k \div Limb)

RECURSIVE NatTrim(_)
NatTrim(N) ==
    IF N # <<>> /\ N[Len(N)] = 0 THEN NatTrim(SubSeq(N, 1, Len(N) - 1)) ELSE N

RECURSIVE BitLength(_)
BitLength(k) == IF k = 0 THEN 0 ELSE 1 + BitLength(k \div 2)

NatBitLength(N) ==
    IF N = <<>> THEN 0 ELSE LimbBits * (Len(N) - 1) + BitLength(N[Len(N)])

RECURSIVE NatTimesCarry(_, _, _)
NatTimesCarry(N, k, carry) ==
    IF N = <<>> THEN NatOf(carry)
    ELSE LET t == Head(N) * k + carry
         IN  <<t % Limb>> \o NatTimesCarry(Tail(N), k, t \div Limb)

\* N * k for 0 <= k < Limb
NatTimes(N, k) == NatTrim(NatTimesCarry(N, k, 0))

RECURSIVE NatAddCarry(_, _, _)
NatAddCarry(N, M, carry) ==
    IF N = <<>> /\ M = <<>> THEN NatOf(carry)
    ELSE LET t == (IF N = <<>> THEN 0 ELSE Head(N))
                    + (IF M = <<>> THEN 0 ELSE Head(M)) + carry
         IN  <<t % Limb>> \o NatAddCarry(IF N = <<>> THEN N ELSE Tail(N),
                                         IF M = <<>> THEN M ELSE Tail(M), t \div Limb)

NatAdd(N, M) == NatAddCarry(N, M, 0)

RECURSIVE NatSubBorrow(_, _, _)
NatSubBorrow(N, M, borrow) ==
    IF N = <<>> THEN <<>>
    ELSE LET t == Head(N) - (IF M = <<>> THEN 0 ELSE Head(M)) - borrow
         IN  <<IF t < 0 THEN t + Limb ELSE t>>
                 \o NatSubBorrow(Tail(N), IF M = <<>> THEN M ELSE Tail(M),
                                 IF t < 0 THEN 1 ELSE 0)

\* N - M for N >= M
NatSub(N, M) == NatTrim(NatSubBorrow(N, M, 0))

\* -1, 0 or 1 as N is smaller than, equal to or larger than M
NatCompare(N, M) ==
    IF Len(N) # Len(M) THEN (IF Len(N) < Len(M) THEN -1 ELSE 1)
    ELSE LET differ == {i \in DOMAIN N : N[i] # M[i]}
         IN  IF differ = {} THEN 0
             ELSE LET top == CHOOSE i \in differ : \A j \in differ : j <= i
                  IN  IF N[top] < M[top] THEN -1 ELSE 1

RECURSIVE NatTimesNat(_, _)
NatTimesNat(N, M) ==
    IF M = <<>> \/ N = <<>> THEN <<>>
    ELSE NatAdd(NatTimes(N, Head(M)), NatTrim(<<0>> \o NatTimesNat(N, Tail(M))))

\* Division from the top digit down.  A step brings the highest digit left
\* of the dividend down to the remainder r, puts the quotient digit below the
\* digits q found so far and leaves the rest of the dividend.
DivideFrom(N) == [rest |-> N, q |-> <<>>, r |-> <<>>]

\* By k, 0 < k < Limb; the remainder is a single digit
RECURSIVE NatDivideFrom(_, _)
NatDivideFrom(at, k) ==
    IF at.rest = <<>> THEN at
    ELSE LET t == (IF at.r = <<>> THEN 0 ELSE at.r[1]) * Limb + at.rest[Len(at.rest)]
         IN  NatDivideFrom([rest |-> SubSeq(at.rest, 1, Len(at.rest) - 1),
                            q |-> <<t \div k>> \o at.q,
                            r |-> NatOf(t % k)], k)

\* The largest digit g in lo..hi with D * g <= R, one existing
RECURSIVE NatQuotientDigit(_, _, _, _)
NatQuotientDigit(R, D, lo, hi) ==
    IF lo = hi THEN lo
    ELSE LET mid == (lo + hi + 1) \div 2
         IN  IF NatCompare(NatTimes(D, mid), R) <= 0
             THEN NatQuotientDigit(R, D, mid, hi)
             ELSE NatQuotientDigit(R, D, lo, mid - 1)

\* By D # 0 of any length
RECURSIVE NatLongDivide(_, _)
NatLongDivide(at, D) ==
    IF at.rest = <<>> THEN at
    ELSE LET R == NatTrim(<<at.rest[Len(at.rest)]>> \o at.r)
             g == NatQuotientDigit(R, D, 0, Limb - 1)
         IN  NatLongDivide([rest |-> SubSeq(at.rest, 1, Len(at.rest) - 1),
                            q |-> <<g>> \o at.q,
                            r |-> NatSub(R, NatTimes(D, g))], D)

\* Quotient q and remainder r of N by D # 0
NatDivide(N, D) ==
    LET by == IF Len(D) = 1 THEN NatDivideFrom(DivideFrom(N), D[1])
              ELSE NatLongDivide(DivideFrom(N), D)
    IN  [q |-> NatTrim(by.q), r |-> by.r]

\* N * Limb^digits
NatShift(N, digits) == [i \in 1..digits |-> 0] \o N

\* A number is s * m * Limb^e with s the sign (1 or -1), m a natural number
\* of at most MantissaBits bits whose lowest digit is not 0, and e an integer;
\* 0 is 1 * 0 * Limb^0.  Exponents stay far from the ends of the binary64
\* range: no overflow, no subnormal numbers.
Zero == [s |-> 1, m |-> <<>>, e |-> 0]

\* s * N * Limb^e with the lowest digit of the mantissa not 0
RECURSIVE Exactly(_, _, _)
Exactly(s, N, e) ==
    IF N = <<>> THEN Zero
    ELSE IF N[1] = 0 THEN Exactly(s, Tail(N), e + 1)
    ELSE [s |-> s, m |-> N, e |-> e]

\* The binary64 number nearest to s * (N + f) * Limb^e, where 0 < f < 1 if
\* sticky and f = 0 otherwise, the one with an even mantissa when two are
\* equally near; N has more than MantissaBits bits if sticky
Rounded(s, N, e, sticky) ==
    LET drop == NatBitLength(N) - MantissaBits
    IN  IF Len(N) * LimbBits <= MantissaBits \/ drop <= 0 THEN Exactly(s, N, e)
        ELSE LET whole == drop \div LimbBits
                 part == drop % LimbBits
                 unit == 2 ^ part
                 digit == N[whole + 1]
                 kept == <<digit - (digit % unit)>> \o SubSeq(N, whole + 2, Len(N))
                 half == IF part > 0 THEN (digit \div (unit \div 2)) % 2 = 1
                         ELSE N[whole] >= Limb \div 2
                 more == \/ sticky
                         \/ IF part > 0 THEN digit % (unit \div 2) # 0
                            ELSE N[whole] % (Limb \div 2) # 0
                         \/ \E k \in 1..(IF part > 0 THEN whole ELSE whole - 1) : N[k] # 0
                 odd == (digit \div unit) % 2 = 1
             IN  Exactly(s, IF half /\ (more \/ odd) THEN NatAdd(kept, <<unit>>) ELSE kept,
                         e + whole)

\* An integer literal or count
Num(k) == Exactly(IF k < 0 THEN -1 ELSE 1, NatOf(Abs(k)), 0)

IsZero(a) == a.m = <<>>

RNeg(a) == IF IsZero(a) THEN a ELSE [a EXCEPT !.s = -a.s]

\* -1, 0 or 1 as a is smaller than, equal to or larger than b
RCompare(a, b) ==
    LET sa == IF IsZero(a) THEN 0 ELSE a.s
        sb == IF IsZero(b) THEN 0 ELSE b.s
        e == IF a.e < b.e THEN a.e ELSE b.e
    IN  IF sa # sb THEN (IF sa < sb THEN -1 ELSE 1)
        ELSE IF sa = 0 THEN 0
        ELSE sa * NatCompare(NatShift(a.m, a.e - e), NatShift(b.m, b.e - e))

\* a + b
RAdd(a, b) ==
    IF IsZero(a) THEN b
    ELSE IF IsZero(b) THEN a
    ELSE LET e == IF a.e < b.e THEN a.e ELSE b.e
             A == NatShift(a.m, a.e - e)
             B == NatShift(b.m, b.e - e)
         IN  IF a.s = b.s THEN Rounded(a.s, NatAdd(A, B), e, FALSE)
             ELSE IF NatCompare(A, B) >= 0 THEN Rounded(a.s, NatSub(A, B), e, FALSE)
             ELSE Rounded(b.s, NatSub(B, A), e, FALSE)

\* a - b
RSub(a, b) == RAdd(a, RNeg(b))

\* a + b of real numbers, kept whole: as many bits as the sum has
ExactSum(a, b) ==
    IF IsZero(a) THEN b
    ELSE IF IsZero(b) THEN a
    ELSE LET e == IF a.e < b.e THEN a.e ELSE b.e
             A == NatShift(a.m, a.e - e)
             B == NatShift(b.m, b.e - e)
         IN  IF a.s = b.s THEN Exactly(a.s, NatAdd(A, B), e)
             ELSE IF NatCompare(A, B) >= 0 THEN Exactly(a.s, NatSub(A, B), e)
             ELSE Exactly(b.s, NatSub(B, A), e)

\* a * b
RMul(a, b) ==
    IF IsZero(a) \/ IsZero(b) THEN Zero
    ELSE Rounded(a.s * b.s, NatTimesNat(a.m, b.m), a.e + b.e, FALSE)

\* a / b for b # 0: the quotient of the mantissas to at least two bits more
\* than a number keeps, the remainder deciding the rounding with them
RDiv(a, b) ==
    IF IsZero(a) THEN Zero
    ELSE LET gap == MantissaBits + 2 + NatBitLength(b.m) - NatBitLength(a.m)
             shift == IF gap > 0 THEN (gap + LimbBits - 1) \div LimbBits ELSE 0
             by == NatDivide(NatShift(a.m, shift), b.m)
         IN  Rounded(a.s * b.s, by.q, a.e - b.e - shift, by.r # <<>>)

\* n / d for integers n and d # 0
Frac(n, d) == RDiv(Num(n), Num(d))

RLeq(a, b) == RCompare(a, b) <= 0
RLt(a, b) == RCompare(a, b) < 0
RMin(a, b) == IF RLeq(a, b) THEN a ELSE b
RMax(a, b) == IF RLeq(a, b) THEN b ELSE a

\* Integer quotient rounded toward zero (Math.trunc)
Trunc(a, b) == IF a >= 0 THEN a \div b ELSE -((-a) \div b)

-----------------------------------------------------------------------------
(* Values *)

\* null or undefined, where a record or a timestamp may be missing
Null == [null |-> TRUE]

\* undefined, where an optional count may be missing
Absent == -1

MinutesPerHour == 60
HoursPerDay == 24
MinutesPerDay == MinutesPerHour * HoursPerDay

Iso(day, minute) == [d |-> day, m |-> minute]

\* date-fns parseISO followed by getTime, in minutes
parseISO(s) == s.d * MinutesPerDay + s.m

\* date-fns differenceInHours(left, right): full hours, rounded toward zero
differenceInHours(left, right) == Trunc(left - right, MinutesPerHour)

\* date-fns differenceInDays(left, right): full days, rounded toward zero
differenceInDays(left, right) == Trunc(left - right, MinutesPerDay)

\* Array.prototype.filter(...).length
Count(s, P(_)) == Cardinality({i \in DOMAIN s : P(s[i])})

\* Array.prototype.find: the first element satisfying P, Null when none does
Find(s, P(_)) ==
    LET hits == {i \in DOMAIN s : P(s[i])}
    IN  IF hits = {} THEN Null
        ELSE s[CHOOSE i \in hits : \A j \in hits : i <= j]

\* Sequences over S of length at most n
SeqUpTo(S, n) == UNION {[1..k -> S] : k \in 0..n}

\* The sequences of at most n elements that are all of one of the sets, and
\* the pairs of elements of any of them
BatchesOf(sets, n) ==
    UNION {SeqUpTo(S, n) : S \in sets} \cup SeqUpTo(UNION sets, IF n < 2 THEN n ELSE 2)

-----------------------------------------------------------------------------
(* Bot classifier: isBot of bot-detection *)

UpperLetters == "ABCDEFGHIJKLMNOPQRSTUVWXYZ"
LowerLetters == "abcdefghijklmnopqrstuvwxyz"

CharAt(s, i) == SubSeq(s, i, i)

UpperLetterSet == {CharAt(UpperLetters, i) : i \in 1..Len(UpperLetters)}

ToLowerChar(c) ==
    IF c \in UpperLetterSet
    THEN CharAt(LowerLetters, CHOOSE i \in 1..Len(UpperLetters) : CharAt(UpperLetters, i) = c)
    ELSE c

\* String.prototype.endsWith
endsWith(s, suffix) ==
    /\ Len(s) >= Len(suffix)
    /\ SubSeq(s, Len(s) - Len(suffix) + 1, Len(s)) = suffix

testPrefixExact(s, prefix) ==
    /\ Len(s) >= Len(prefix)
    /\ SubSeq(s, 1, Len(prefix)) = prefix

\* /^prefix/i.test(s)
testPrefixIgnoreCase(s, prefix) ==
    /\ Len(s) >= Len(prefix)
    /\ \A i \in 1..Len(prefix) : ToLowerChar(CharAt(s, i)) = CharAt(prefix, i)

botPatterns ==
    {"dependabot", "renovate", "greenkeeper", "snyk-bot", "codecov", "allcontributors"}

isBot(user) ==
    IF user = Null THEN FALSE
    ELSE IF user.type = "Bot" THEN TRUE
    ELSE IF user.login # "" /\ endsWith(user.login, "[bot]") THEN TRUE
    ELSE IF user.login # ""
         THEN \E pattern \in botPatterns : testPrefixIgnoreCase(user.login, pattern)
    ELSE FALSE

hasAuthor(item) == item.user # Null

\* The predicate (r) => r.user && !isBot(r.user) used for comments and reviews
isHuman(item) == item.user # Null /\ ~isBot(item.user)

-----------------------------------------------------------------------------
(* Statistics primitive: median *)

RECURSIVE Insert(_, _)
Insert(sorted, x) ==
    IF sorted = <<>> THEN <<x>>
    ELSE IF x < Head(sorted) THEN <<x>> \o sorted
    ELSE <<Head(sorted)>> \o Insert(Tail(sorted), x)

\* [...numbers].sort((a, b) => a - b): a stable ascending sort of a copy
RECURSIVE SortAscending(_)
SortAscending(s) ==
    IF s = <<>> THEN <<>>
    ELSE Insert(SortAscending(SubSeq(s, 1, Len(s) - 1)), s[Len(s)])

medianUnsorted(nums) ==
    IF Len(nums) = 0 THEN Num(0)
    ELSE LET mid == Len(nums) \div 2
         IN  IF Len(nums) % 2 = 0
             THEN Frac(nums[mid] + nums[mid + 1], 2)
             ELSE Num(nums[mid + 1])

\* sorted[mid] of the 0-based source is sorted[mid + 1] here
median(nums) ==
    IF Len(nums) = 0 THEN Num(0)
    ELSE LET sorted == SortAscending(nums)
             mid == Len(sorted) \div 2
         IN  IF Len(sorted) % 2 = 0
             THEN Frac(sorted[mid] + sorted[mid + 1], 2)
             ELSE Num(sorted[mid + 1])

-----------------------------------------------------------------------------
(* Backlog health analyzer *)

\* Math.min(30, pct90Plus * 2), Math.min(30, (pct61_90 / 2) * 1) and
\* Math.min(30, (pct31_60 / 5) * 0.5), in the order of their subtraction
staleIssuesTerms(issueByAge, totalOpenIssues) ==
    IF totalOpenIssues > 0
    THEN LET pct90Plus == RMul(Frac(issueByAge["90+"], totalOpenIssues), Num(100))
             pct61_90 == RMul(Frac(issueByAge["61-90"], totalOpenIssues), Num(100))
             pct31_60 == RMul(Frac(issueByAge["31-60"], totalOpenIssues), Num(100))
         IN  <<RMin(Num(30), RMul(pct90Plus, Num(2))),
               RMin(Num(30), RMul(RDiv(pct61_90, Num(2)), Num(1))),
               RMin(Num(30), RMul(RDiv(pct31_60, Num(5)), Frac(1, 2)))>>
    ELSE <<>>

unlabeledDeductionPerTen(unlabeledPercentage) ==
    RMin(Num(20), RMul(RDiv(unlabeledPercentage, Num(10)), Num(1)))

unlabeledDeduction(unlabeledPercentage) ==
    RMin(Num(20), RMul(RDiv(unlabeledPercentage, Num(5)), Num(1)))

orphanDeduction(orphanPercentage) ==
    RMin(Num(20), RMul(RDiv(orphanPercentage, Num(5)), Num(1)))

\* Math.min(15, pct30Plus * 2), Math.min(15, (pct15_30 / 2) * 1) and
\* Math.min(15, (pct8_14 / 5) * 0.5), in the order of their subtraction
stalePRsTerms(prByAge, totalOpenPRs) ==
    IF totalOpenPRs > 0
    THEN LET pct30Plus == RMul(Frac(prByAge["30+"], totalOpenPRs), Num(100))
             pct15_30 == RMul(Frac(prByAge["15-30"], totalOpenPRs), Num(100))
             pct8_14 == RMul(Frac(prByAge["8-14"], totalOpenPRs), Num(100))
         IN  <<RMin(Num(15), RMul(pct30Plus, Num(2))),
               RMin(Num(15), RMul(RDiv(pct15_30, Num(2)), Num(1))),
               RMin(Num(15), RMul(RDiv(pct8_14, Num(5)), Frac(1, 2)))>>
    ELSE <<>>

withoutReviewDeduction(withoutReviewPercentage) ==
    RMin(Num(15), RMul(RDiv(withoutReviewPercentage, Num(5)), Num(1)))

\* baseScore -= term, for each term in turn
RECURSIVE subtractEach(_, _)
subtractEach(score, terms) ==
    IF terms = <<>> THEN score
    ELSE subtractEach(RSub(score, Head(terms)), Tail(terms))

\* baseScore after the subtractions for stale issues
baseScoreAfterStaleIssues(issueByAge, totalOpenIssues) ==
    subtractEach(Num(100), staleIssuesTerms(issueByAge, totalOpenIssues))

\* baseScore after the subtractions for unlabeled and orphan issues
baseScoreAfterOrphan(issueByAge, unlabeledPercentage, orphanPercentage, totalOpenIssues) ==
    subtractEach(baseScoreAfterStaleIssues(issueByAge, totalOpenIssues),
                 <<unlabeledDeduction(unlabeledPercentage),
                   orphanDeduction(orphanPercentage)>>)

\* baseScore after the subtractions for stale PRs
baseScoreAfterStalePRs(issueByAge, unlabeledPercentage, orphanPercentage, prByAge, totalOpenIssues, totalOpenPRs) ==
    subtractEach(baseScoreAfterOrphan(issueByAge, unlabeledPercentage, orphanPercentage,
                                      totalOpenIssues),
                 stalePRsTerms(prByAge, totalOpenPRs))

\* The running total before the final clamp
baseScore(issueByAge, unlabeledPercentage, orphanPercentage, prByAge, withoutReviewPercentage, totalOpenIssues, totalOpenPRs) ==
    RSub(baseScoreAfterStalePRs(issueByAge, unlabeledPercentage, orphanPercentage,
                                prByAge, totalOpenIssues, totalOpenPRs),
         withoutReviewDeduction(withoutReviewPercentage))

calculateBacklogHealthScoreUnclamped(issueByAge, unlabeledPercentage, orphanPercentage, prByAge, withoutReviewPercentage, totalOpenIssues, totalOpenPRs) ==
    baseScore(issueByAge, unlabeledPercentage, orphanPercentage, prByAge,
              withoutReviewPercentage, totalOpenIssues, totalOpenPRs)

\* Math.max(0, Math.min(100, baseScore))
calculateBacklogHealthScore(issueByAge, unlabeledPercentage, orphanPercentage, prByAge, withoutReviewPercentage, totalOpenIssues, totalOpenPRs) ==
    RMax(Num(0), RMin(Num(100),
        baseScore(issueByAge, unlabeledPercentage, orphanPercentage, prByAge,
                  withoutReviewPercentage, totalOpenIssues, totalOpenPRs)))

issueByAgeOfExclusive(issueAges) ==
    [b \in {"0-30", "31-60", "61-90", "90+"} |->
        CASE b = "0-30" -> Count(issueAges, LAMBDA age : age < 30)
          [] b = "31-60" -> Count(issueAges, LAMBDA age : age >= 30 /\ age < 60)
          [] b = "61-90" -> Count(issueAges, LAMBDA age : age >= 60 /\ age < 90)
          [] b = "90+" -> Count(issueAges, LAMBDA age : age >= 90)]

\* issueAges.filter(...).length for the four issue buckets
issueByAgeOf(issueAges) ==
    [b \in {"0-30", "31-60", "61-90", "90+"} |->
        CASE b = "0-30" -> Count(issueAges, LAMBDA age : age <= 30)
          [] b = "31-60" -> Count(issueAges, LAMBDA age : age > 30 /\ age <= 60)
          [] b = "61-90" -> Count(issueAges, LAMBDA age : age > 60 /\ age <= 90)
          [] b = "90+" -> Count(issueAges, LAMBDA age : age > 90)]

\* prAges.filter(...).length for the four PR buckets
prByAgeOf(prAges) ==
    [b \in {"0-7", "8-14", "15-30", "30+"} |->
        CASE b = "0-7" -> Count(prAges, LAMBDA age : age <= 7)
          [] b = "8-14" -> Count(prAges, LAMBDA age : age > 7 /\ age <= 14)
          [] b = "15-30" -> Count(prAges, LAMBDA age : age > 14 /\ age <= 30)
          [] b = "30+" -> Count(prAges, LAMBDA age : age > 30)]

\* issue.labels.length === 0
isUnlabeled(issue) == Len(issue.labels) = 0

isOrphanEitherMissing(issue) == Len(issue.assignees) = 0 \/ issue.pull_request = Null

\* issue.assignees.length === 0 && !issue.pull_request
isOrphan(issue) == Len(issue.assignees) = 0 /\ issue.pull_request = Null

prIsWithoutReviewAnyAuthor(pr, history) ==
    LET prData == Find(history, LAMBDA item : item.pr.number = pr.number)
    IN  IF prData = Null THEN TRUE
        ELSE Len(prData.reviews) = 0

\* The filter predicate of prsWithoutReview
prIsWithoutReview(pr, history) ==
    LET prData == Find(history, LAMBDA item : item.pr.number = pr.number)
    IN  IF prData = Null THEN TRUE
        ELSE Count(prData.reviews, isHuman) = 0

labelOfStrict(score) ==
    IF RLt(Num(70), score) THEN "Healthy"
    ELSE IF RLt(Num(40), score) THEN "Needs Attention"
    ELSE "Overloaded"

labelOf(score) ==
    IF RLeq(Num(70), score) THEN "Healthy"
    ELSE IF RLeq(Num(40), score) THEN "Needs Attention"
    ELSE "Overloaded"

calculateBacklogHealthMetrics(issueList, prList, history, today) ==
    LET issueAges == [i \in DOMAIN issueList |->
                        differenceInDays(today, parseISO(issueList[i].created_at))]
        byAge == issueByAgeOf(issueAges)
        unlabeled == Count(issueList, isUnlabeled)
        unlabeledPercentage ==
            IF Len(issueList) > 0 THEN RMul(Frac(unlabeled, Len(issueList)), Num(100))
            ELSE Num(0)
        orphan == Count(issueList, isOrphan)
        orphanPercentage ==
            IF Len(issueList) > 0 THEN RMul(Frac(orphan, Len(issueList)), Num(100))
            ELSE Num(0)
        prAges == [i \in DOMAIN prList |->
                        differenceInDays(today, parseISO(prList[i].created_at))]
        prByAge == prByAgeOf(prAges)
        prsWithoutReview == Count(prList, LAMBDA pr : prIsWithoutReview(pr, history))
        withoutReviewPercentage ==
            IF Len(prList) > 0 THEN RMul(Frac(prsWithoutReview, Len(prList)), Num(100))
            ELSE Num(0)
        score == calculateBacklogHealthScore(byAge, unlabeledPercentage,
                     orphanPercentage, prByAge, withoutReviewPercentage,
                     Len(issueList), Len(prList))
    IN  [score |-> score,
         label |-> labelOf(score),
         issues |-> [totalOpen |-> Len(issueList),
                     byAge |-> byAge,
                     unlabeled |-> unlabeled,
                     unlabeledPercentage |-> unlabeledPercentage,
                     orphan |-> orphan,
                     orphanPercentage |-> orphanPercentage],
         pullRequests |-> [totalOpen |-> Len(prList),
                           byAge |-> prByAge,
                           withoutReview |-> prsWithoutReview,
                           withoutReviewPercentage |-> withoutReviewPercentage]]

-----------------------------------------------------------------------------
(* Array helpers *)

RECURSIVE Concat(_)
Concat(ss) == IF ss = <<>> THEN <<>> ELSE Head(ss) \o Concat(Tail(ss))

\* The values F pushes while a for-of loop walks s: F(x) is <<>> or <<value>>
Pushed(s, F(_)) == Concat([i \in DOMAIN s |-> F(s[i])])

\* Array.prototype.filter
Filter(s, P(_)) == SelectSeq(s, P)

\* Array.prototype.sort with a comparator that orders by Key: a stable sort,
\* ascending when dir = 1 and descending when dir = -1
StableSort(s, Key(_), dir) ==
    LET keyed == {<<i, dir * Key(s[i])>> : i \in DOMAIN s}
        before(a, b) == a[2] < b[2] \/ (a[2] = b[2] /\ a[1] < b[1])
        ranked == {<<1 + Cardinality({b \in keyed : before(b, a)}), a[1]>> : a \in keyed}
    IN  [p \in DOMAIN s |-> s[(CHOOSE r \in ranked : r[1] = p)[2]]]

\* The distinct values of s in order of first appearance (Map insertion order)
RECURSIVE Distinct(_)
Distinct(s) ==
    IF s = <<>> THEN <<>>
    ELSE LET rest == Distinct(SubSeq(s, 1, Len(s) - 1))
             x == s[Len(s)]
         IN  IF \E i \in DOMAIN rest : rest[i] = x THEN rest ELSE Append(rest, x)

RECURSIVE SumSeq(_)
SumSeq(s) == IF s = <<>> THEN 0 ELSE Head(s) + SumSeq(Tail(s))

\* The WhiteSpace and LineTerminator characters that String.prototype.trim
\* strips: tab, line feed, vertical tab, form feed, carriage return, space,
\* no-break space, ogham space mark, zero width no-break space.  The other
\* ones (U+2000 to U+200A, U+2028, U+2029, U+202F, U+205F, U+3000) cannot
\* occur in a string of the model.
VerticalTab == ""
NoBreakSpace == " "
OghamSpaceMark == " "
ZeroWidthNoBreakSpace == "﻿"

isWhitespace(c) ==
    c \in {"\t", "\n", VerticalTab, "\f", "\r", " ",
           NoBreakSpace, OghamSpaceMark, ZeroWidthNoBreakSpace}

RECURSIVE trimStart(_)
trimStart(s) ==
    IF Len(s) > 0 /\ isWhitespace(CharAt(s, 1)) THEN trimStart(SubSeq(s, 2, Len(s)))
    ELSE s

RECURSIVE trimEnd(_)
trimEnd(s) ==
    IF Len(s) > 0 /\ isWhitespace(CharAt(s, Len(s)))
    THEN trimEnd(SubSeq(s, 1, Len(s) - 1))
    ELSE s

trim(s) == trimEnd(trimStart(s))

\* Date.prototype.toISOString of a time in minutes
toISOString(t) == Iso(t \div MinutesPerDay, t % MinutesPerDay)

\* date-fns startOfDay
startOfDay(t) == t - (t % MinutesPerDay)

\* date-fns startOfWeek with the default week start, Sunday; day 0 is a Sunday
startOfWeek(t) == startOfDay(t) - ((t \div MinutesPerDay) % 7) * MinutesPerDay

\* The days of the months of a common year
DaysInMonth == <<31, 28, 31, 30, 31, 30, 31, 31, 30, 31, 30, 31>>

MonthsPerYear == Len(DaysInMonth)

\* The days of a year before its month `month`, January being month 0
RECURSIVE DaysBeforeMonth(_)
DaysBeforeMonth(month) ==
    IF month = 0 THEN 0 ELSE DaysBeforeMonth(month - 1) + DaysInMonth[month]

DaysPerYear == DaysBeforeMonth(MonthsPerYear)

\* Date.prototype.getFullYear, getMonth and getDate of a time in minutes, the
\* year counted from that of day 0
getFullYear(t) == (t \div MinutesPerDay) \div DaysPerYear

getMonth(t) ==
    LET day == (t \div MinutesPerDay) % DaysPerYear
    IN  CHOOSE month \in 0..(MonthsPerYear - 1) :
            /\ DaysBeforeMonth(month) <= day
            /\ day < DaysBeforeMonth(month + 1)

getDate(t) == ((t \div MinutesPerDay) % DaysPerYear) - DaysBeforeMonth(getMonth(t)) + 1

\* Midnight before the first day of month `month` of year 0, for any integer
\* `month`: month -1 is the December before, month 12 the January after
startOfMonthNumber(month) ==
    ((month \div MonthsPerYear) * DaysPerYear + DaysBeforeMonth(month % MonthsPerYear))
        * MinutesPerDay

\* Date.prototype.setMonth(month): the same day of the month and time of day
\* in month `month` of the same year; a day the month does not have runs over
\* into the next month
setMonth(t, month) ==
    startOfMonthNumber(getFullYear(t) * MonthsPerYear + month)
        + (getDate(t) - 1) * MinutesPerDay + (t % MinutesPerDay)

\* date-fns subDays
subDays(t, amount) == t - amount * MinutesPerDay

\* date-fns subMonths: the same day of the month and time of day `amount`
\* months earlier, the last day of that month if it has no such day
subMonths(t, amount) ==
    LET month == getFullYear(t) * MonthsPerYear + getMonth(t) - amount
        days == DaysInMonth[(month % MonthsPerYear) + 1]
        date == IF getDate(t) < days THEN getDate(t) ELSE days
    IN  startOfMonthNumber(month) + (date - 1) * MinutesPerDay + (t % MinutesPerDay)

\* getStartDate(timeRange), with new Date() read at `today`
getStartDate(range, today) ==
    CASE range = "1week" -> subDays(today, 7)
      [] range = "1month" -> subMonths(today, 1)
      [] range = "3months" -> subMonths(today, 3)
      [] range = "6months" -> subMonths(today, 6)
      [] OTHER -> subMonths(today, 1)

\* a.localeCompare(b) < 0 on two ISO timestamps of equal width
isoBefore(a, b) == a.d < b.d \/ (a.d = b.d /\ a.m < b.m)

-----------------------------------------------------------------------------
(* Issue lifecycle analyzer *)

\* One latency of one item: <<hours>> when the event exists and the duration
\* is not negative, <<>> otherwise
sample(event, createdAt) ==
    IF event = Null THEN <<>>
    ELSE LET time == differenceInHours(parseISO(event.created_at), createdAt)
         IN  IF time >= 0 THEN <<time>> ELSE <<>>

\* comments.find((c) => c.user && !isBot(c.user))
firstNonBotComment(comments) == Find(comments, isHuman)

isMeaningful(c) == isHuman(c) /\ c.body # "" /\ Len(trim(c.body)) > 10

firstMeaningful(comments) ==
    LET meaningfulComments == Filter(comments, isMeaningful)
    IN  IF Len(meaningfulComments) > 0 THEN meaningfulComments[1] ELSE Null

triageEventLabelFirst(events) ==
    LET labelEvent == Find(events, LAMBDA e : e.event = "labeled")
    IN  IF labelEvent # Null THEN labelEvent
        ELSE Find(events, LAMBDA e : e.event = "assigned")

triageEvent(events) ==
    LET labelEvent == Find(events, LAMBDA e : e.event = "labeled")
        assigneeEvent == Find(events, LAMBDA e : e.event = "assigned")
    IN  IF labelEvent # Null /\ assigneeEvent # Null
        THEN IF parseISO(labelEvent.created_at) < parseISO(assigneeEvent.created_at)
             THEN labelEvent ELSE assigneeEvent
        ELSE IF labelEvent # Null THEN labelEvent ELSE assigneeEvent

timeToFirstResponse(item) ==
    sample(firstNonBotComment(item.comments), parseISO(item.issue.created_at))

timeToFirstMeaningfulResponse(item) ==
    sample(firstMeaningful(item.comments), parseISO(item.issue.created_at))

timeToTriage(item) == sample(triageEvent(item.events), parseISO(item.issue.created_at))

timeToResolution(item) ==
    IF item.issue.closed_at # Null
    THEN sample([created_at |-> item.issue.closed_at], parseISO(item.issue.created_at))
    ELSE <<>>

isReopenedWhileOpen(item) ==
    Len(Filter(item.events, LAMBDA e : e.event = "reopened")) > 0

isReopened(item) ==
    /\ Len(Filter(item.events, LAMBDA e : e.event = "reopened")) > 0
    /\ item.issue.closed_at # Null

percentageDefaultFull(count, total) ==
    IF total > 0 THEN RMul(Frac(count, total), Num(100)) ELSE Num(100)

\* (count / total) * 100, 0 when total is 0
percentage(count, total) == IF total > 0 THEN RMul(Frac(count, total), Num(100)) ELSE Num(0)

bucketOf(item, range) ==
    LET t == parseISO(item.issue.created_at)
    IN  toISOString(IF range = "1week" \/ range = "1month"
                    THEN startOfDay(t) ELSE startOfWeek(t))

sortByDateSkipped(series) == series

\* Array.prototype.sort with (a, b) => a.date.localeCompare(b.date)
sortByDate(series) ==
    LET before(i, j) == \/ isoBefore(series[i].date, series[j].date)
                        \/ (series[i].date = series[j].date /\ i < j)
        rank(i) == 1 + Cardinality({j \in DOMAIN series : before(j, i)})
    IN  [p \in DOMAIN series |-> series[CHOOSE i \in DOMAIN series : rank(i) = p]]

\* What is pushed onto timeSeries, a bucket at a time, buckets in the order in
\* which the Map first met them
timeSeriesEntries(items, range) ==
    LET keys == Distinct([i \in DOMAIN items |-> bucketOf(items[i], range)])
        entry(date) ==
            LET bucketIssues == Filter(items, LAMBDA item : bucketOf(item, range) = date)
            IN  [date |-> date,
                 medianTimeToFirstResponse |-> median(Pushed(bucketIssues, timeToFirstResponse)),
                 medianTimeToResolution |-> median(Pushed(bucketIssues, timeToResolution)),
                 issuesCreated |-> Len(bucketIssues),
                 issuesClosed |-> Count(bucketIssues, LAMBDA item : item.issue.state = "closed")]
    IN  [k \in DOMAIN keys |-> entry(keys[k])]

calculateTimeSeries(items, range) == sortByDate(timeSeriesEntries(items, range))

staleOfAnyState(items, days, today) ==
    Count(items, LAMBDA item :
        differenceInDays(today, parseISO(item.issue.created_at)) > days)

\* openIssues.filter((issue) => age > days).length
staleOpenIssues(items, days, today) ==
    LET openOnes == Filter(items, LAMBDA item : item.issue.state = "open")
    IN  Count(openOnes, LAMBDA item :
            differenceInDays(today, parseISO(item.issue.created_at)) > days)

calculateIssueLifecycleMetrics(items, range, today) ==
    LET stale(days) == staleOpenIssues(items, days, today)
        reopenedCount == Count(items, isReopened)
        totalIssues == Len(items)
    IN  [medianTimeToFirstResponse |-> median(Pushed(items, timeToFirstResponse)),
         medianTimeToFirstMeaningfulResponse |->
             median(Pushed(items, timeToFirstMeaningfulResponse)),
         medianTimeToTriage |-> median(Pushed(items, timeToTriage)),
         medianTimeToResolution |-> median(Pushed(items, timeToResolution)),
         staleIssueRate |-> [after30Days |-> percentage(stale(30), totalIssues),
                             after60Days |-> percentage(stale(60), totalIssues),
                             after90Days |-> percentage(stale(90), totalIssues)],
         reopenedIssueRate |-> percentage(reopenedCount, totalIssues),
         timeSeries |-> calculateTimeSeries(items, range)]

-----------------------------------------------------------------------------
(* Reviewer and contributor analyzer *)

TopListLength == 10

sliceAll(s, n) == s

\* Array.prototype.slice(0, n)
slice(s, n) == SubSeq(s, 1, IF Len(s) < n THEN Len(s) ELSE n)

orAbsent(x) == x

\* x || 0 for an optional count
orZero(x) == IF x = Absent THEN 0 ELSE x

humanReviews(item) == Filter(item.reviews, isHuman)

firstReviewListed(item) == humanReviews(item)[1]

\* [...humanReviews].sort(by submitted_at)[0]; item has a human review
firstReview(item) ==
    StableSort(humanReviews(item), LAMBDA r : parseISO(r.submitted_at), 1)[1]

\* May be negative: it is tested before it is pushed
timeToFirstReview(item) ==
    differenceInHours(parseISO(firstReview(item).submitted_at), parseISO(item.pr.created_at))

isMergedNever(pr) == FALSE

isMerged(pr) == pr.merged /\ pr.merged_at # Null

firstReviewSample(item) ==
    IF Len(humanReviews(item)) = 0 THEN <<>>
    ELSE IF timeToFirstReview(item) >= 0 THEN <<timeToFirstReview(item)>> ELSE <<>>

reviewToMergeSample(item) ==
    IF Len(humanReviews(item)) = 0 \/ ~isMerged(item.pr) THEN <<>>
    ELSE LET timeToMerge == differenceInHours(parseISO(item.pr.merged_at),
                                              parseISO(firstReview(item).submitted_at))
         IN  IF timeToMerge >= 0 THEN <<timeToMerge>> ELSE <<>>

reviewerUpdatesAllFirst(item) ==
    IF Len(humanReviews(item)) = 0 THEN <<>>
    ELSE [k \in DOMAIN humanReviews(item) |->
            [username |-> humanReviews(item)[k].user.login,
             isFirst |-> TRUE,
             time |-> timeToFirstReview(item),
             state |-> humanReviews(item)[k].state]]

\* What the inner loop over humanReviews adds to reviewerMap for one PR
reviewerUpdates(item) ==
    IF Len(humanReviews(item)) = 0 THEN <<>>
    ELSE [k \in DOMAIN humanReviews(item) |->
            LET review == humanReviews(item)[k]
            IN  [username |-> review.user.login,
                 isFirst |-> review.id = firstReview(item).id,
                 time |-> timeToFirstReview(item),
                 state |-> review.state]]

reviewerEntryDismissedAsComment(username, updates) ==
    LET mine == Filter(updates, LAMBDA u : u.username = username)
        firsts == Filter(mine, LAMBDA u : u.isFirst)
        reviewCount == Len(firsts)
    IN  [username |-> username,
         prsReviewed |-> Len(mine),
         avgTimeToFirstReview |->
             IF reviewCount > 0
             THEN Frac(SumSeq([k \in DOMAIN firsts |-> firsts[k].time]), reviewCount)
             ELSE Num(0),
         approvals |-> Count(mine, LAMBDA u : u.state = "APPROVED"),
         changesRequested |-> Count(mine, LAMBDA u : u.state = "CHANGES_REQUESTED"),
         commentsOnly |-> Count(mine, LAMBDA u : u.state \in {"COMMENTED", "DISMISSED"})]

reviewerEntry(username, updates) ==
    LET mine == Filter(updates, LAMBDA u : u.username = username)
        firsts == Filter(mine, LAMBDA u : u.isFirst)
        totalTimeToFirstReview == SumSeq([k \in DOMAIN firsts |-> firsts[k].time])
        reviewCount == Len(firsts)
    IN  [username |-> username,
         prsReviewed |-> Len(mine),
         avgTimeToFirstReview |->
             IF reviewCount > 0 THEN Frac(totalTimeToFirstReview, reviewCount) ELSE Num(0),
         approvals |-> Count(mine, LAMBDA u : u.state = "APPROVED"),
         changesRequested |-> Count(mine, LAMBDA u : u.state = "CHANGES_REQUESTED"),
         commentsOnly |-> Count(mine, LAMBDA u : u.state = "COMMENTED")]

\* Array.from(reviewerMap.entries()).map(...): an entry for each reviewer, in
\* the order in which the Map first met them
reviewerEntries(items) ==
    LET updates == Pushed(items, reviewerUpdates)
        usernames == Distinct([k \in DOMAIN updates |-> updates[k].username])
    IN  [k \in DOMAIN usernames |-> reviewerEntry(usernames[k], updates)]

topReviewersOf(items) ==
    slice(StableSort(reviewerEntries(items), LAMBDA e : e.prsReviewed, -1), TopListLength)

contributorEntry(author, items) ==
    LET mine == Filter(items, LAMBDA item : item.pr.user.login = author)
        commits == SumSeq([k \in DOMAIN mine |-> orZero(mine[k].pr.commits)])
        additions == SumSeq([k \in DOMAIN mine |-> orZero(mine[k].pr.additions)])
        deletions == SumSeq([k \in DOMAIN mine |-> orZero(mine[k].pr.deletions)])
    IN  [username |-> author,
         commits |-> commits,
         additions |-> additions,
         deletions |-> deletions,
         netLines |-> additions - deletions]

\* Array.from(contributorMap.entries()).map(...)
contributorEntries(items) ==
    LET authors == Distinct([k \in DOMAIN items |-> items[k].pr.user.login])
    IN  [k \in DOMAIN authors |-> contributorEntry(authors[k], items)]

topContributorsOf(items) ==
    slice(StableSort(contributorEntries(items), LAMBDA e : e.commits, -1), TopListLength)

calculateReviewerInsightsMetrics(items) ==
    [totalPRs |-> Len(items),
     medianTimeToFirstReview |-> median(Pushed(items, firstReviewSample)),
     medianTimeFromReviewToMerge |-> median(Pushed(items, reviewToMergeSample)),
     prsMergedWithoutReview |->
         Count(items, LAMBDA item : Len(humanReviews(item)) = 0 /\ isMerged(item.pr)),
     prsClosedWithoutReview |->
         Count(items, LAMBDA item :
             /\ Len(humanReviews(item)) = 0
             /\ ~isMerged(item.pr)
             /\ item.pr.state = "closed"
             /\ ~item.pr.merged),
     topReviewers |-> topReviewersOf(items),
     topContributors |-> topContributorsOf(items)]

-----------------------------------------------------------------------------
(* Contributor friction analyzer *)

contributorFirstListedPR(author, items) ==
    Find([k \in DOMAIN items |-> items[k].pr], LAMBDA pr : pr.user.login = author)

\* contributorFirstPR.get(author) after the per-author sort by creation time
contributorFirstPR(author, items) ==
    LET authorPRs == Filter([k \in DOMAIN items |-> items[k].pr],
                            LAMBDA pr : pr.user.login = author)
    IN  StableSort(authorPRs, LAMBDA pr : parseISO(pr.created_at), 1)[1]

isFirstTimePR(item, items) ==
    contributorFirstPR(item.pr.user.login, items).number = item.pr.number

\* The latency to humanReviews[0], the first human review in list order
frictionReviewSample(item) ==
    IF Len(humanReviews(item)) > 0
    THEN LET time == differenceInHours(parseISO(humanReviews(item)[1].submitted_at),
                                       parseISO(item.pr.created_at))
         IN  IF time >= 0 THEN <<time>> ELSE <<>>
    ELSE <<>>

reviewCyclesAnyAuthor(item) ==
    Count(item.reviews, LAMBDA r : r.state = "CHANGES_REQUESTED")

reviewCycles(item) ==
    Count(item.reviews, LAMBDA r : r.state = "CHANGES_REQUESTED" /\ isHuman(r))

calculateContributorFrictionMetrics(items, issueItems) ==
    LET firstTimePRs == Filter(items, LAMBDA item : isFirstTimePR(item, items))
        returningPRs == Filter(items, LAMBDA item : ~isFirstTimePR(item, items))
        firstTimeMerged == Count(firstTimePRs, LAMBDA item : item.pr.merged)
        returningMerged == Count(returningPRs, LAMBDA item : item.pr.merged)
        firstTimeReviewCycles == [k \in DOMAIN firstTimePRs |-> reviewCycles(firstTimePRs[k])]
        issueAuthors == {issueItems[k].issue.user.login : k \in DOMAIN issueItems}
        prAuthors == {items[k].pr.user.login : k \in DOMAIN items}
    IN  [firstTimePRs |-> Len(firstTimePRs),
         returningPRs |-> Len(returningPRs),
         firstTimeMergeRate |-> percentage(firstTimeMerged, Len(firstTimePRs)),
         returningMergeRate |-> percentage(returningMerged, Len(returningPRs)),
         firstTimeMedianTimeToReview |-> median(Pushed(firstTimePRs, frictionReviewSample)),
         returningMedianTimeToReview |-> median(Pushed(returningPRs, frictionReviewSample)),
         firstTimeMedianReviewCycles |-> median(firstTimeReviewCycles),
         firstTimeIssuesWithoutPR |-> Cardinality(issueAuthors \ prAuthors)]

-----------------------------------------------------------------------------
(* Arrays as objects: what a call does to the arrays it is given.

   The heap is the sequence of the arrays that exist.  An array is known by
   its place in the heap, and an item of a batch holds the places of its
   nested lists.  An operation that makes an array (a literal, filter, map,
   slice, Array.from, a spread copy) adds one at the end of the heap; sort
   puts the array it is called on in order.  An array the function makes and
   fills by push is added with what is pushed onto it.  The analyzers assign
   to no property of an issue, PR, comment, event or review: these are held
   as values. *)

\* The place of the array made last
newest(heap) == Len(heap)

\* [] and its pushes, Array.from, map, slice: a new array
newArray(heap, elements) == Append(heap, elements)

\* Array.prototype.filter: a new array of the elements that pass
filterArray(heap, array, Test(_)) == Append(heap, Filter(heap[array], Test))

\* [...array]: a new array of the same elements
spread(heap, array) == Append(heap, heap[array])

\* Array.prototype.sort: the array itself is put in order
sortArray(heap, array, Key(_), dir) ==
    [heap EXCEPT ![array] = StableSort(heap[array], Key, dir)]

\* The heap with a batch of PRs added: the reviews list of each item, then the
\* list of the items
loadPRs(heap, items) ==
    heap \o [k \in DOMAIN items |-> items[k].reviews]
         \o <<[k \in DOMAIN items |-> [pr |-> items[k].pr, reviews |-> Len(heap) + k]]>>

\* The batch of PRs a place of the heap holds
prsAt(heap, array) ==
    [k \in DOMAIN heap[array] |->
        [pr |-> heap[array][k].pr, reviews |-> heap[heap[array][k].reviews]]]

\* The heap with a batch of issues added: the comments list and the events
\* list of each item, then the list of the items
loadIssues(heap, items) ==
    heap \o [n \in 1..(2 * Len(items)) |->
                IF n % 2 = 1 THEN items[(n + 1) \div 2].comments
                ELSE items[n \div 2].events]
         \o <<[k \in DOMAIN items |->
                 [issue |-> items[k].issue,
                  comments |-> Len(heap) + 2 * k - 1,
                  events |-> Len(heap) + 2 * k]]>>

issuesAt(heap, array) ==
    [k \in DOMAIN heap[array] |->
        [issue |-> heap[array][k].issue,
         comments |-> heap[heap[array][k].comments],
         events |-> heap[heap[array][k].events]]]

\* median: sorted = [...numbers].sort((a, b) => a - b), unless numbers is
\* empty
medianOnHeap(heap, numbersArray) ==
    IF heap[numbersArray] = <<>> THEN heap
    ELSE LET copied == spread(heap, numbersArray)
         IN  sortArray(copied, newest(copied), LAMBDA x : x, 1)

\* median(times) for each of the lists of numbers the function has pushed
RECURSIVE mediansOnHeap(_, _)
mediansOnHeap(heap, pushed) ==
    IF pushed = <<>> THEN heap
    ELSE mediansOnHeap(medianOnHeap(newArray(heap, Head(pushed)), Len(heap) + 1),
                       Tail(pushed))

\* array.filter(Test) on the nested list `field` of every item of a list
RECURSIVE filterEach(_, _, _, _, _)
filterEach(heap, array, field, Test(_), k) ==
    IF k > Len(heap[array]) THEN heap
    ELSE filterEach(filterArray(heap, heap[array][k][field], Test), array, field,
                    Test, k + 1)

\* calculateTimeSeries: the bucket lists of the Map, the two medians of every
\* bucket, and timeSeries, which is sorted by date once it is filled
calculateTimeSeriesOnHeap(heap, issuesArray, range) ==
    LET items == issuesAt(heap, issuesArray)
        dates == Pushed(items, LAMBDA item : <<bucketOf(item, range)>>)
        keys == Distinct(dates)
        inBucket(list, k) ==
            Concat([i \in DOMAIN list |-> IF dates[i] = keys[k] THEN <<list[i]>> ELSE <<>>])
        buckets == heap \o [k \in DOMAIN keys |-> inBucket(heap[issuesArray], k)]
        medians ==
            mediansOnHeap(buckets,
                          Concat([k \in DOMAIN keys |->
                                     LET bucketIssues == inBucket(items, k)
                                     IN  <<Pushed(bucketIssues, timeToFirstResponse),
                                           Pushed(bucketIssues, timeToResolution)>>]))
        timeSeries == newArray(medians, timeSeriesEntries(items, range))
    IN  [timeSeries EXCEPT ![newest(timeSeries)] = sortByDate(timeSeries[newest(timeSeries)])]

\* calculateIssueLifecycleMetrics: meaningfulComments and reopenEvents of
\* every item, openIssues and closedIssues, the three filters of openIssues,
\* the four medians and the time series
calculateIssueLifecycleMetricsOnHeap(heap, issuesArray, range, today) ==
    LET items == issuesAt(heap, issuesArray)
        age(issue) == differenceInDays(today, parseISO(issue.created_at))
        meaningful == filterEach(heap, issuesArray, "comments", isMeaningful, 1)
        reopened == filterEach(meaningful, issuesArray, "events",
                               LAMBDA e : e.event = "reopened", 1)
        openIssuesArray == Len(reopened) + 1
        openClosed ==
            reopened
                \o <<Pushed(items, LAMBDA item :
                         IF item.issue.state = "open" THEN <<item.issue>> ELSE <<>>),
                     Pushed(items, LAMBDA item :
                         IF item.issue.state = "open" THEN <<>> ELSE <<item.issue>>)>>
        stale30Days == filterArray(openClosed, openIssuesArray, LAMBDA issue : age(issue) > 30)
        stale60Days == filterArray(stale30Days, openIssuesArray, LAMBDA issue : age(issue) > 60)
        stale == filterArray(stale60Days, openIssuesArray, LAMBDA issue : age(issue) > 90)
        medians ==
            mediansOnHeap(stale, <<Pushed(items, timeToFirstResponse),
                                   Pushed(items, timeToFirstMeaningfulResponse),
                                   Pushed(items, timeToTriage),
                                   Pushed(items, timeToResolution)>>)
    IN  calculateTimeSeriesOnHeap(medians, issuesArray, range)

sortedReviewsInPlace(heap, reviews) ==
    sortArray(heap, reviews, LAMBDA r : parseISO(r.submitted_at), 1)

\* humanReviews = reviews.filter(...) and, unless it is empty, sortedReviews
\* = [...humanReviews].sort(...): the copy of the filtered list is sorted
sortedReviews(heap, reviews) ==
    LET filtered == filterArray(heap, reviews, isHuman)
    IN  IF filtered[newest(filtered)] = <<>> THEN filtered
        ELSE LET copied == spread(filtered, newest(filtered))
             IN  sortArray(copied, newest(copied), LAMBDA r : parseISO(r.submitted_at), 1)

\* for (const { pr, reviews } of prs), from the k-th item on
RECURSIVE sortedReviewsOfEach(_, _, _)
sortedReviewsOfEach(heap, prsArray, k) ==
    IF k > Len(heap[prsArray]) THEN heap
    ELSE sortedReviewsOfEach(sortedReviews(heap, heap[prsArray][k].reviews),
                             prsArray, k + 1)

\* Array.from(map.entries()).map(...).sort(...).slice(0, 10): sort puts the
\* array that map made in order
topListOnHeap(heap, entries, Key(_)) ==
    LET fromMap == newArray(heap, entries)
        mapped == newArray(fromMap, fromMap[newest(fromMap)])
        sorted == sortArray(mapped, newest(mapped), Key, -1)
    IN  newArray(sorted, slice(sorted[newest(sorted)], TopListLength))

\* calculateReviewerInsightsMetrics: the loop over prs, the two medians and
\* the two leaderboards
calculateReviewerInsightsMetricsOnHeap(heap, prsArray) ==
    LET items == prsAt(heap, prsArray)
        looped == sortedReviewsOfEach(heap, prsArray, 1)
        medians == mediansOnHeap(looped, <<Pushed(items, firstReviewSample),
                                           Pushed(items, reviewToMergeSample)>>)
        topReviewers == topListOnHeap(medians, reviewerEntries(items),
                                      LAMBDA e : e.prsReviewed)
    IN  topListOnHeap(topReviewers, contributorEntries(items), LAMBDA e : e.commits)

\* authorPRs.sort(...) for the lists of contributorPRs, at the places from
\* `array` to `last`
RECURSIVE sortAuthorPRs(_, _, _)
sortAuthorPRs(heap, array, last) ==
    IF array > last THEN heap
    ELSE sortAuthorPRs(sortArray(heap, array, LAMBDA pr : parseISO(pr.created_at), 1),
                       array + 1, last)

\* calculateContributorFrictionMetrics: the lists of contributorPRs, filled
\* with the PRs of their author and then sorted; firstTimePRs and returningPRs
\* and their filters; humanReviews of every item of the two and the filter
\* behind the review cycles; the three medians; the lists of authors
calculateContributorFrictionMetricsOnHeap(heap, prsArray, issuesArray) ==
    LET items == prsAt(heap, prsArray)
        issueItems == issuesAt(heap, issuesArray)
        authors == Distinct([k \in DOMAIN items |-> items[k].pr.user.login])
        contributorPRs ==
            heap \o [k \in DOMAIN authors |->
                        Pushed(items, LAMBDA item :
                            IF item.pr.user.login = authors[k] THEN <<item.pr>> ELSE <<>>)]
        sorted == sortAuthorPRs(contributorPRs, Len(heap) + 1, Len(heap) + Len(authors))
        firstTimePRsArray == Len(sorted) + 1
        returningPRsArray == Len(sorted) + 2
        classes ==
            sorted \o <<Filter(heap[prsArray], LAMBDA item : isFirstTimePR(item, items)),
                        Filter(heap[prsArray], LAMBDA item : ~isFirstTimePR(item, items))>>
        merged == filterArray(filterArray(classes, firstTimePRsArray,
                                          LAMBDA item : item.pr.merged),
                              returningPRsArray, LAMBDA item : item.pr.merged)
        reviewed == filterEach(filterEach(merged, firstTimePRsArray, "reviews", isHuman, 1),
                               returningPRsArray, "reviews", isHuman, 1)
        cycles == filterEach(reviewed, firstTimePRsArray, "reviews",
                             LAMBDA r : r.state = "CHANGES_REQUESTED" /\ isHuman(r), 1)
        firstTimePRs == prsAt(classes, firstTimePRsArray)
        returningPRs == prsAt(classes, returningPRsArray)
        medians ==
            mediansOnHeap(cycles,
                          <<Pushed(firstTimePRs, frictionReviewSample),
                            Pushed(returningPRs, frictionReviewSample),
                            [k \in DOMAIN firstTimePRs |-> reviewCycles(firstTimePRs[k])]>>)
        issueAuthors == Distinct([k \in DOMAIN issueItems |-> issueItems[k].issue.user.login])
        mapped == medians \o <<[k \in DOMAIN issueItems |-> issueItems[k].issue.user.login],
                               [k \in DOMAIN items |-> items[k].pr.user.login],
                               issueAuthors>>
    IN  filterArray(mapped, newest(mapped),
                    LAMBDA author : \A k \in DOMAIN items : items[k].pr.user.login # author)

\* prData.reviews.filter(...) for the open PRs that allPRs.find finds, from
\* the k-th open PR on
RECURSIVE humanReviewsOfFound(_, _, _, _)
humanReviewsOfFound(heap, openPRsArray, allPRsArray, k) ==
    IF k > Len(heap[openPRsArray]) THEN heap
    ELSE LET prData == Find(heap[allPRsArray],
                            LAMBDA item : item.pr.number = heap[openPRsArray][k].number)
         IN  humanReviewsOfFound(IF prData = Null THEN heap
                                 ELSE filterArray(heap, prData.reviews, isHuman),
                                 openPRsArray, allPRsArray, k + 1)

\* The four filters of the ages behind a byAge record, whose buckets end at
\* the three limits
filterAges(heap, agesArray, limits) ==
    LET first == filterArray(heap, agesArray, LAMBDA age : age <= limits[1])
        second == filterArray(first, agesArray,
                              LAMBDA age : age > limits[1] /\ age <= limits[2])
        third == filterArray(second, agesArray,
                             LAMBDA age : age > limits[2] /\ age <= limits[3])
    IN  filterArray(third, agesArray, LAMBDA age : age > limits[3])

\* calculateBacklogHealthMetrics: issueAges and prAges and their filters, the
\* filters of openIssues and of openPRs, and humanReviews of the records found
calculateBacklogHealthMetricsOnHeap(heap, openIssuesArray, openPRsArray, allPRsArray, today) ==
    LET ages(list) == [k \in DOMAIN list |-> differenceInDays(today, parseISO(list[k].created_at))]
        issueAges == newArray(heap, ages(heap[openIssuesArray]))
        byAge == filterAges(issueAges, newest(issueAges), <<30, 60, 90>>)
        unlabeled == filterArray(byAge, openIssuesArray, isUnlabeled)
        orphan == filterArray(unlabeled, openIssuesArray, isOrphan)
        prAges == newArray(orphan, ages(heap[openPRsArray]))
        prByAge == filterAges(prAges, newest(prAges), <<7, 14, 30>>)
        found == humanReviewsOfFound(prByAge, openPRsArray, allPRsArray, 1)
        history == prsAt(heap, allPRsArray)
    IN  filterArray(found, openPRsArray, LAMBDA pr : prIsWithoutReview(pr, history))

\* The caller's sequence after median has returned
numbersAfterMedian(nums) == medianOnHeap(<<nums>>, 1)[1]

\* The caller's batch after calculateIssueLifecycleMetrics has returned
issuesAfterIssueLifecycle(items, range, today) ==
    LET heap == loadIssues(<<>>, items)
    IN  issuesAt(calculateIssueLifecycleMetricsOnHeap(heap, newest(heap), range, today),
                 newest(heap))

\* The caller's batch after calculateReviewerInsightsMetrics has returned
prsAfterReviewerInsights(items) ==
    LET heap == loadPRs(<<>>, items)
    IN  prsAt(calculateReviewerInsightsMetricsOnHeap(heap, newest(heap)), newest(heap))

\* The caller's two batches after calculateContributorFrictionMetrics has
\* returned
argumentsAfterContributorFriction(items, issueItems) ==
    LET loaded == loadPRs(<<>>, items)
        heap == loadIssues(loaded, issueItems)
        after == calculateContributorFrictionMetricsOnHeap(heap, newest(loaded), newest(heap))
    IN  [prs |-> prsAt(after, newest(loaded)), issues |-> issuesAt(after, newest(heap))]

\* The caller's three lists after calculateBacklogHealthMetrics has returned
argumentsAfterBacklogHealth(issueList, prList, history, today) ==
    LET heap == loadPRs(<<issueList, prList>>, history)
        after == calculateBacklogHealthMetricsOnHeap(heap, 1, 2, newest(heap), today)
    IN  [openIssues |-> after[1], openPRs |-> after[2], allPRs |-> prsAt(after, newest(heap))]

\* A list of items that holds items of `given`, as the lists the route filters
\* from what it fetched do: the item with the number of an item of `given` is
\* that item, with the nested lists the call has left it
sharedItems(list, given, field) ==
    [k \in DOMAIN list |->
        LET same == {j \in DOMAIN given : given[j][field].number = list[k][field].number}
        IN  IF same = {} THEN list[k]
            ELSE given[CHOOSE j \in same : \A other \in same : j <= other]]

-----------------------------------------------------------------------------
(* Inputs: the records of github-analytics and the batches the model draws *)

User(login, type) == [login |-> login, type |-> type]

Alice == User("alice", "User")
Bob == User("bob", "User")
DependabotApp == User("dependabot[bot]", "Bot")
RenovatePreview == User("Renovate-preview", "User")

GitHubIssue(number, state, created_at, closed_at, user, labels, assignees, pull_request) ==
    [number |-> number, state |-> state, created_at |-> created_at,
     closed_at |-> closed_at, user |-> user, labels |-> labels,
     assignees |-> assignees, pull_request |-> pull_request]

GitHubPullRequest(number, state, created_at, closed_at, merged_at, user, merged, commits, additions, deletions) ==
    [number |-> number, state |-> state, created_at |-> created_at,
     closed_at |-> closed_at, merged_at |-> merged_at, user |-> user,
     merged |-> merged, commits |-> commits, additions |-> additions,
     deletions |-> deletions]

GitHubReview(id, user, state, submitted_at) ==
    [id |-> id, user |-> user, state |-> state, submitted_at |-> submitted_at]

\* The day on which the analyzers run
Today == Iso(200, 0)

\* A timestamp `days` whole days and `minutes` further minutes before Today
Ago(days, minutes) ==
    IF minutes = 0 THEN Iso(Today.d - days, 0)
    ELSE Iso(Today.d - days - 1, MinutesPerDay - minutes)

\* Ages on both sides of every issue bucket boundary; the odd hours make the
\* rounding of differenceInDays visible (30 days 23 hours is age 30)
IssueCreatedAts ==
    {Ago(30, 23 * MinutesPerHour), Ago(31, 0), Ago(60, 23 * MinutesPerHour),
     Ago(61, 0), Ago(90, 23 * MinutesPerHour), Ago(91, 0)}

PRCreatedAts ==
    {Ago(7, 23 * MinutesPerHour), Ago(8, 0), Ago(14, 23 * MinutesPerHour),
     Ago(15, 0), Ago(30, 23 * MinutesPerHour), Ago(31, 0)}

\* Who looks after an issue: nobody, an assignee, an attached pull request
Attachments ==
    {[assignees |-> <<>>, pull_request |-> Null],
     [assignees |-> <<Bob>>, pull_request |-> Null],
     [assignees |-> <<>>, pull_request |-> [url |-> "pull/1"]]}

\* Labelled and assigned issues of every age
AgedOpenIssueKinds ==
    {GitHubIssue(1, "open", c, Null, Alice, <<[name |-> "bug"]>>, <<Bob>>, Null) :
        c \in IssueCreatedAts}

\* Issues of an age between 31 and 60 days, with and without a label and with
\* every attachment, and labelled issues younger than that, assigned or not
TriagedOpenIssueKinds ==
    {GitHubIssue(1, "open", Ago(31, 0), Null, Alice, l, a.assignees, a.pull_request) :
        l \in {<<>>, <<[name |-> "bug"]>>},
        a \in Attachments}
    \cup {GitHubIssue(1, "open", Ago(30, 23 * MinutesPerHour), Null, Alice,
                      <<[name |-> "bug"]>>, assignees, Null) :
            assignees \in {<<>>, <<Bob>>}}

OpenPR(number, created_at) ==
    GitHubPullRequest(number, "open", created_at, Null, Null, Alice, FALSE,
                      Absent, Absent, Absent)

OpenPRKinds == {OpenPR(1, c) : c \in PRCreatedAts}

\* Review lists that differ in who reviewed: nobody, only bots, only an
\* author-less review, a human, a human after a bot
ReviewLists ==
    {<<>>,
     <<GitHubReview(1, DependabotApp, "COMMENTED", Ago(1, 0))>>,
     <<GitHubReview(1, RenovatePreview, "APPROVED", Ago(1, 0))>>,
     <<GitHubReview(1, Null, "COMMENTED", Ago(1, 0))>>,
     <<GitHubReview(1, Bob, "APPROVED", Ago(1, 0))>>,
     <<GitHubReview(1, DependabotApp, "COMMENTED", Ago(2, 0)),
       GitHubReview(2, Bob, "CHANGES_REQUESTED", Ago(1, 0))>>}

HistoryKinds ==
    {[pr |-> OpenPR(n, Ago(3, 0)), reviews |-> r] : n \in {1, 2}, r \in ReviewLists}

\* Fixed backlogs used while the other side of the input varies
FreshIssue == GitHubIssue(1, "open", Ago(2, 0), Null, Alice, <<[name |-> "bug"]>>,
                          <<Bob>>, Null)
NeglectedIssue == GitHubIssue(2, "open", Ago(120, 0), Null, Alice, <<>>, <<>>, Null)
FixedIssueBacklogs == {<<>>, <<FreshIssue>>, <<NeglectedIssue>>}

\* Crowded backlogs: fresh, assigned issues, the first few of them of another
\* kind (no label, an age in another bucket, neglected)
UnlabeledIssue == GitHubIssue(3, "open", Ago(2, 0), Null, Alice, <<>>, <<Bob>>, Null)
CrowdedIssueKinds ==
    {UnlabeledIssue, NeglectedIssue,
     GitHubIssue(4, "open", Ago(45, 0), Null, Alice, <<[name |-> "bug"]>>, <<Bob>>, Null),
     GitHubIssue(5, "open", Ago(75, 0), Null, Alice, <<>>, <<>>, Null)}
CrowdedIssueBacklogs ==
    {[i \in 1..MaxCrowdedIssues |->
        [(IF i <= k THEN kind ELSE FreshIssue) EXCEPT !.number = i]] :
        k \in 1..MaxCrowdedIssues, kind \in CrowdedIssueKinds}

FixedPRBacklogs ==
    {[open |-> <<>>, all |-> <<>>],
     [open |-> <<OpenPR(1, Ago(40, 0)), OpenPR(2, Ago(10, 0))>>, all |-> <<>>],
     [open |-> <<OpenPR(1, Ago(2, 0))>>,
      all |-> <<[pr |-> OpenPR(1, Ago(2, 0)),
                 reviews |-> <<GitHubReview(1, Bob, "APPROVED", Ago(1, 0))>>]>>],
     [open |-> <<OpenPR(1, Ago(10, 0))>>,
      all |-> <<[pr |-> OpenPR(1, Ago(10, 0)),
                 reviews |-> <<GitHubReview(1, Bob, "APPROVED", Ago(1, 0))>>]>>]}

FixedHistories ==
    {<<>>,
     <<[pr |-> OpenPR(1, Ago(3, 0)),
        reviews |-> <<GitHubReview(1, Bob, "APPROVED", Ago(1, 0))>>]>>,
     <<[pr |-> OpenPR(1, Ago(3, 0)),
        reviews |-> <<GitHubReview(1, DependabotApp, "COMMENTED", Ago(1, 0))>>],
       [pr |-> OpenPR(2, Ago(3, 0)),
        reviews |-> <<GitHubReview(1, Bob, "APPROVED", Ago(1, 0))>>]>>}

NumberValues == -1..3

-----------------------------------------------------------------------------
(* Issue and PR batches *)

GitHubComment(id, user, body, created_at) ==
    [id |-> id, user |-> user, body |-> body, created_at |-> created_at]

GitHubIssueEvent(id, event, created_at) ==
    [id |-> id, event |-> event, created_at |-> created_at, actor |-> Null]

\* The timestamp `minutes` after (before, when negative) the timestamp `iso`
After(iso, minutes) == toISOString(parseISO(iso) + minutes)

Hours(h) == h * MinutesPerHour

\* What happened on an issue, as offsets from its creation: nothing; answers
\* and triage after creation; answers and triage stamped before creation;
\* a bot answering first, followed by a short answer that ends its line; an
\* answer stamped half an hour before creation
Activities(c) ==
    {[comments |-> <<>>, events |-> <<>>],
     [comments |-> <<GitHubComment(1, Bob, "works for me now", After(c, Hours(6)))>>,
      events |-> <<GitHubIssueEvent(1, "labeled", After(c, Hours(3))),
                   GitHubIssueEvent(2, "assigned", After(c, Hours(5)))>>],
     [comments |-> <<GitHubComment(1, Bob, "works for me now", After(c, Hours(-2)))>>,
      events |-> <<GitHubIssueEvent(1, "labeled", After(c, Hours(-3)))>>],
     [comments |-> <<GitHubComment(1, DependabotApp, "bump lodash to 4.17.21",
                                   After(c, Hours(1))),
                     GitHubComment(2, Null, "ghost comment here", After(c, Hours(2))),
                     GitHubComment(3, Bob, "\tsame here\r\n", After(c, Hours(7))),
                     GitHubComment(4, Alice, "fixed in the linked PR", After(c, Hours(9)))>>,
      events |-> <<GitHubIssueEvent(1, "assigned", After(c, Hours(2))),
                   GitHubIssueEvent(2, "labeled", After(c, Hours(4))),
                   GitHubIssueEvent(3, "reopened", After(c, Hours(50)))>>],
     [comments |-> <<GitHubComment(1, Bob, "works for me now", After(c, -30))>>,
      events |-> <<>>]}

\* How an issue stands: open, closed two days after creation, closed with a
\* closing time before its creation, open again after having been closed
Closures(c) ==
    {[state |-> "open", closed_at |-> Null],
     [state |-> "closed", closed_at |-> After(c, Hours(48))],
     [state |-> "closed", closed_at |-> After(c, Hours(-5))],
     [state |-> "open", closed_at |-> After(c, Hours(30))]}

IssueCreations == {Ago(100, 0), Ago(40, Hours(3))}

IssueItemKindsAt(c) ==
    {[issue |-> GitHubIssue(1, z.state, c, z.closed_at, u, <<>>, <<>>, Null),
      comments |-> a.comments,
      events |-> a.events] :
        a \in Activities(c), z \in Closures(c), u \in {Alice}}

IssueItemKinds == UNION {IssueItemKindsAt(c) : c \in IssueCreations}

\* Issues whose lists are not what the GitHub API usually delivers: comments
\* only by bots and missing authors; a bot recognised by its prefix before a
\* human; comments and events listed out of creation order; several reopenings
IrregularIssueKindsAt(c, d) ==
        {[issue |-> GitHubIssue(1, "open", c, Null, Alice, <<>>, <<>>, Null),
          comments |-> <<GitHubComment(1, DependabotApp, "bump lodash to 4.17.21",
                                       After(c, Hours(1))),
                         GitHubComment(2, Null, "ghost comment here", After(c, Hours(2)))>>,
          events |-> <<>>],
         [issue |-> GitHubIssue(1, "closed", d, After(d, Hours(48)), Alice, <<>>, <<>>, Null),
          comments |-> <<GitHubComment(1, User("dependabot-preview", "User"),
                                       "automatic rebase done", After(d, Hours(1))),
                         GitHubComment(2, Bob, "works for me now", After(d, Hours(6)))>>,
          events |-> <<GitHubIssueEvent(1, "assigned", After(d, Hours(4)))>>],
         [issue |-> GitHubIssue(1, "open", c, Null, Alice, <<>>, <<>>, Null),
          comments |-> <<GitHubComment(1, Bob, "thanks, looking at this now",
                                       After(c, Hours(9))),
                         GitHubComment(2, Alice, "same here on v2", After(c, Hours(6)))>>,
          events |-> <<GitHubIssueEvent(1, "labeled", After(c, Hours(8))),
                       GitHubIssueEvent(2, "labeled", After(c, Hours(3))),
                       GitHubIssueEvent(3, "assigned", After(c, Hours(5)))>>],
         [issue |-> GitHubIssue(1, "closed", c, After(c, Hours(48)), Alice, <<>>, <<>>, Null),
          comments |-> <<>>,
          events |-> <<GitHubIssueEvent(1, "reopened", After(c, Hours(50))),
                       GitHubIssueEvent(2, "closed", After(c, Hours(55))),
                       GitHubIssueEvent(3, "reopened", After(c, Hours(60)))>>]}

IrregularIssueKinds == IrregularIssueKindsAt(Ago(100, 0), Ago(99, 0))

\* An issue of the given age in days, without comments or events
AgedIssue(number, state, days) ==
    [issue |-> GitHubIssue(number, state, Ago(days, 0),
                           IF state = "open" THEN Null ELSE Ago(1, 0), Alice, <<>>, <<>>, Null),
     comments |-> <<>>,
     events |-> <<>>]

\* Four issues aged 10, 40, 70 and 100 days: all open, or the oldest closed
AgedIssueBatches ==
    {<<AgedIssue(1, "open", 10), AgedIssue(2, "open", 40),
       AgedIssue(3, "open", 70), AgedIssue(4, "open", 100)>>,
     <<AgedIssue(1, "open", 10), AgedIssue(2, "open", 40),
       AgedIssue(3, "open", 70), AgedIssue(4, "closed", 100)>>}

\* Reviews of a PR, as offsets from its creation: none; only a bot; one human
\* approval; one human review stamped before creation; two humans listed with
\* the later review first
ReviewsAfter(c) ==
    {<<>>,
     <<GitHubReview(1, DependabotApp, "COMMENTED", After(c, Hours(1)))>>,
     <<GitHubReview(1, Bob, "APPROVED", After(c, Hours(5)))>>,
     <<GitHubReview(1, Bob, "DISMISSED", After(c, Hours(-3)))>>,
     <<GitHubReview(1, Alice, "CHANGES_REQUESTED", After(c, Hours(8))),
       GitHubReview(2, Bob, "COMMENTED", After(c, Hours(2)))>>}

\* How a PR stands, with the size fields the detail fetch filled in or skipped
Outcomes(c) ==
    {[state |-> "open", closed_at |-> Null, merged_at |-> Null, merged |-> FALSE,
      commits |-> Absent, additions |-> Absent, deletions |-> Absent],
     [state |-> "closed", closed_at |-> After(c, Hours(30)),
      merged_at |-> After(c, Hours(30)), merged |-> TRUE,
      commits |-> 3, additions |-> 10, deletions |-> 4],
     [state |-> "closed", closed_at |-> After(c, Hours(4)),
      merged_at |-> After(c, Hours(4)), merged |-> TRUE,
      commits |-> 1, additions |-> 2, deletions |-> 5],
     [state |-> "closed", closed_at |-> After(c, Hours(12)), merged_at |-> Null,
      merged |-> FALSE, commits |-> 2, additions |-> 1, deletions |-> 1]}

PRItem(c, u, o, r) ==
    [pr |-> GitHubPullRequest(1, o.state, c, o.closed_at, o.merged_at, u, o.merged,
                              o.commits, o.additions, o.deletions),
     reviews |-> r]

\* PRs that differ in author, outcome and reviews
ReviewedPRKindsBy(u) ==
    {PRItem(Ago(20, 0), u, o, r) :
        o \in Outcomes(Ago(20, 0)), r \in ReviewsAfter(Ago(20, 0))}

ReviewedPRKinds == UNION {ReviewedPRKindsBy(u) : u \in {Alice, Bob}}

PRCreations == {Ago(20, 0), Ago(10, 0)}

\* PRs that differ in author, creation time, merge and reviews
AuthoredPRKindsAt(c) ==
    {PRItem(c, u, o, r) :
        u \in {Alice, Bob},
        o \in {z \in Outcomes(c) : z.commits \in {Absent, 3}},
        r \in ReviewsAfter(c)}

AuthoredPRKinds == UNION {AuthoredPRKindsAt(c) : c \in PRCreations}

\* GitHub numbers the PRs of a repository: the k-th PR of a batch is number k
Numbered(items) ==
    [k \in DOMAIN items |-> [items[k] EXCEPT !.pr = [@ EXCEPT !.number = k]]]

Carol == User("carol", "User")

\* PRs on which a reviewer returns: three reviews by one reviewer around one by
\* another; a later-listed review that is the earliest; a bot and a dismissal
RepeatReviewedPRKindsAt(c) ==
    LET merged == CHOOSE o \in Outcomes(c) : o.commits = 3
        open == CHOOSE o \in Outcomes(c) : o.state = "open"
        closed == CHOOSE o \in Outcomes(c) : o.commits = 2
    IN  {PRItem(c, Alice, merged,
                <<GitHubReview(1, Bob, "COMMENTED", After(c, Hours(1))),
                  GitHubReview(2, Carol, "APPROVED", After(c, Hours(3))),
                  GitHubReview(3, Bob, "DISMISSED", After(c, Hours(4))),
                  GitHubReview(4, Bob, "APPROVED", After(c, Hours(6)))>>),
         PRItem(c, Alice, open,
                <<GitHubReview(1, Carol, "CHANGES_REQUESTED", After(c, Hours(7))),
                  GitHubReview(2, Bob, "APPROVED", After(c, Hours(2))),
                  GitHubReview(3, Carol, "APPROVED", After(c, Hours(9)))>>),
         PRItem(c, Bob, closed,
                <<GitHubReview(1, DependabotApp, "COMMENTED", After(c, Hours(1))),
                  GitHubReview(2, Carol, "DISMISSED", After(c, Hours(2)))>>)}

RepeatReviewedPRKinds == RepeatReviewedPRKindsAt(Ago(20, 0))

\* More logins than a leaderboard holds
CrowdLogins ==
    <<"ann", "ben", "cy", "dee", "eli", "fay", "gus", "hal", "ida", "jo", "kim">>

\* One PR per login of the crowd, the later PRs with more commits; the first PR
\* is reviewed once by everyone and twice more by the last of the crowd
CrowdedPRBatches ==
    LET c == Ago(20, 0)
        open == CHOOSE o \in Outcomes(c) : o.state = "open"
        sized(k) == [open EXCEPT !.commits = IF k = 1 THEN Absent ELSE k,
                                 !.additions = 10 * k,
                                 !.deletions = IF k % 2 = 0 THEN Absent ELSE 3]
        once == [k \in DOMAIN CrowdLogins |->
                    GitHubReview(k, User(CrowdLogins[k], "User"), "COMMENTED",
                                 After(c, Hours(k)))]
        last == User(CrowdLogins[Len(CrowdLogins)], "User")
        again == <<GitHubReview(Len(CrowdLogins) + 1, last, "APPROVED", After(c, Hours(30))),
                   GitHubReview(Len(CrowdLogins) + 2, last, "APPROVED", After(c, Hours(31)))>>
    IN  {Numbered([k \in DOMAIN CrowdLogins |->
                      PRItem(c, User(CrowdLogins[k], "User"), sized(k),
                             IF k = 1 THEN once \o again ELSE <<>>)])}

\* PRs that differ in who asked for changes: only a bot and a review without
\* author; two people and a bot; nobody
CycleReviewedPRKinds ==
    LET c == Ago(20, 0)
        open == CHOOSE o \in Outcomes(c) : o.state = "open"
    IN  {PRItem(c, u, open, r) :
            u \in {Alice, Bob},
            r \in {<<GitHubReview(1, DependabotApp, "CHANGES_REQUESTED", After(c, Hours(1))),
                     GitHubReview(2, Null, "CHANGES_REQUESTED", After(c, Hours(2)))>>,
                   <<GitHubReview(1, Bob, "CHANGES_REQUESTED", After(c, Hours(2))),
                     GitHubReview(2, Carol, "CHANGES_REQUESTED", After(c, Hours(5))),
                     GitHubReview(3, DependabotApp, "CHANGES_REQUESTED", After(c, Hours(6))),
                     GitHubReview(4, Bob, "APPROVED", After(c, Hours(9)))>>,
                   <<>>}}

\* Issue batches given to the friction analyzer while the PR batch varies
FixedIssueBatches ==
    {<<>>,
     <<[issue |-> GitHubIssue(1, "open", Ago(5, 0), Null, Bob, <<>>, <<>>, Null),
        comments |-> <<>>, events |-> <<>>],
       [issue |-> GitHubIssue(2, "open", Ago(4, 0), Null, User("carol", "User"),
                              <<>>, <<>>, Null),
        comments |-> <<>>, events |-> <<>>]>>}

-----------------------------------------------------------------------------
(* The analytics route and its cache row *)

\* A pending row older than this many minutes is answered with 500
PendingLimitMinutes == 20

\* setCachedAnalytics: expiresAt = subDays(now, -14)
CacheLifetimeDays == 14
CacheLifetime == CacheLifetimeDays * MinutesPerDay

\* The instants at which requests are handled: at the start, at the pending
\* limit and past it, and the same again once a first row has expired
Instants ==
    {from + after : from \in {0, CacheLifetime},
                    after \in {0, PendingLimitMinutes, 2 * PendingLimitMinutes}}

Requests == 1..MaxRequests

\* The awaited functions that evaluate new Date() when they are called, before
\* the query they await
ReadsDate == {"getCachedAnalytics", "getCacheEntry", "setPending", "setComplete"}

\* The time ranges the route accepts, and those it computes
validTimeRanges == <<"1week", "1month", "3months">>
timeRanges == <<"1week", "1month", "3months">>

\* Array.prototype.includes
includes(s, x) == \E k \in DOMAIN s : s[k] = x

\* The timeRange parameters clients send: the default, another valid one and
\* one the route refuses
TimeRangeParams == {"1month", "3months", "6months"}

\* A request is idle before it is sent and after its response; response 0 is
\* no response yet; calledAt is the new Date() of the call it awaits;
\* timeRange is the parameter of the request, "1month" when none is given
IdleRequest == [pc |-> "idle", response |-> 0, calledAt |-> 0, timeRange |-> "1month"]

At(r, pc) == requests[r].pc = pc

\* The handler calls the function it awaits next
GoTo(r, pc) ==
    requests' = [requests EXCEPT ![r] =
                     [pc |-> pc, response |-> 0,
                      calledAt |-> IF pc \in ReadsDate THEN clock ELSE 0,
                      timeRange |-> requests[r].timeRange]]

Respond(r, status) ==
    requests' = [requests EXCEPT ![r] = [IdleRequest EXCEPT !.response = status]]

\* The row a select with .where("expiresAt", ">", new Date()) returns, the
\* date being the one read at `at`
unexpiredEntry(at) == IF cache # Null /\ cache.expiresAt > at THEN cache ELSE Null

\* getCachedAnalytics: from the unexpired row with status complete, the data
\* of a supported time range, Null when the row holds none for it
\* (data[timeRange] || null) and for any other time range
getCachedAnalytics(range, at) ==
    LET cached == unexpiredEntry(at)
    IN  IF cached = Null \/ cached.status # "complete" THEN Null
        ELSE IF range = "1week" \/ range = "1month" \/ range = "3months"
             THEN cached.data[range]
             ELSE Null

\* getCacheEntry: the unexpired row, whatever its status
getCacheEntry(at) == unexpiredEntry(at)

\* What setCachedAnalytics stores as data: the three nulls of the pending
\* row, or the responses of the three windows
AnalyticsResponse(range) == [timeRange |-> range, cached |-> FALSE]
NoResponses == [range \in {timeRanges[k] : k \in DOMAIN timeRanges} |-> Null]
Responses ==
    [range \in {timeRanges[k] : k \in DOMAIN timeRanges} |-> AnalyticsResponse(range)]

\* The row setCachedAnalytics inserts, or puts in the place of the old one:
\* now = new Date() is read at `at`
cachedRow(data, status, at) ==
    [data |-> data, status |-> status, cachedAt |-> at, expiresAt |-> at + CacheLifetime]

CacheStatus == {"pending", "complete"}

\* createdAt < twentyMinutesAgo, with the route's own new Date()
isOverdue(entry) == entry.cachedAt < clock - PendingLimitMinutes

\* The responses of a failed fetchRepositoryInfo: not found or private, access
\* denied, and the two answers of the catch block
RepositoryFailures == {404, 403, 429, 500}

\* The responses of the catch block to a failed fetch or computation
GenerationFailures == {429, 500}

-----------------------------------------------------------------------------
(* Initial states: the function about to be called and its arguments *)

NoMedianInput == numbers = <<>> /\ medianResult = <<>>

NoBacklogInput ==
    /\ openIssues = <<>>
    /\ openPRs = <<>>
    /\ allPRs = <<>>

NoBatch == issues = <<>> /\ prs = <<>> /\ timeRange = "1month"

NoActor == actor = Null /\ isBotResult = <<>>

\* No request has reached the route and the cache table is empty
NoRequests ==
    /\ cache = Null
    /\ clock = 0
    /\ requests = [r \in Requests |-> IdleRequest]

\* Nothing has been fetched either
NoRoute == NoRequests /\ issuesData = <<>>

NoResults ==
    /\ issueLifecycle = <<>>
    /\ reviewerInsights = <<>>
    /\ contributorFriction = <<>>
    /\ backlogHealth = <<>>

InitMedian ==
    /\ call = "median"
    /\ numbers \in SeqUpTo(NumberValues, MaxNumbers)
    /\ medianResult = <<>>
    /\ now = parseISO(Today)
    /\ NoBatch
    /\ NoBacklogInput
    /\ NoResults
    /\ NoRoute
    /\ NoActor

InitBacklog ==
    /\ call = "calculateBacklogHealthMetrics"
    /\ NoMedianInput
    /\ NoBatch
    /\ now = parseISO(Today)
    /\ NoResults
    /\ NoRoute
    /\ NoActor
    /\ \/ /\ openIssues \in SeqUpTo(AgedOpenIssueKinds, MaxOpenIssues)
                                \cup SeqUpTo(TriagedOpenIssueKinds, MaxOpenIssues)
          /\ \E b \in FixedPRBacklogs : openPRs = b.open /\ allPRs = b.all
       \/ /\ openIssues \in FixedIssueBacklogs
          /\ openPRs \in SeqUpTo(OpenPRKinds, MaxOpenPRs)
          /\ allPRs \in FixedHistories
       \/ /\ openIssues \in CrowdedIssueBacklogs
          /\ \E b \in FixedPRBacklogs : openPRs = b.open /\ allPRs = b.all
       \/ /\ openIssues = <<>>
          /\ openPRs \in {<<OpenPR(1, Ago(2, 0))>>,
                          <<OpenPR(2, Ago(2, 0)), OpenPR(1, Ago(9, 0))>>,
                          <<OpenPR(3, Ago(2, 0)), OpenPR(2, Ago(2, 0)), OpenPR(1, Ago(9, 0))>>}
          /\ allPRs \in SeqUpTo(HistoryKinds, MaxAllPRs)

InitIssueLifecycle ==
    /\ call = "calculateIssueLifecycleMetrics"
    /\ NoMedianInput
    /\ NoBacklogInput
    /\ now = parseISO(Today)
    /\ NoResults
    /\ NoRoute
    /\ NoActor
    /\ issues \in BatchesOf({IssueItemKindsAt(c) : c \in IssueCreations}, MaxIssues)
                    \cup SeqUpTo(IrregularIssueKinds, MaxIssues)
                    \cup AgedIssueBatches
    /\ timeRange \in {"1week", "3months"}
    /\ prs = <<>>

InitReviewerInsights ==
    /\ call = "calculateReviewerInsightsMetrics"
    /\ NoMedianInput
    /\ NoBacklogInput
    /\ now = parseISO(Today)
    /\ NoResults
    /\ NoRoute
    /\ NoActor
    /\ issues = <<>>
    /\ timeRange = "1month"
    /\ prs \in {Numbered(b) :
                    b \in BatchesOf({ReviewedPRKindsBy(u) : u \in {Alice, Bob}}, MaxPRs)
                            \cup SeqUpTo(RepeatReviewedPRKinds, MaxPRs)}
              \cup CrowdedPRBatches

InitContributorFriction ==
    /\ call = "calculateContributorFrictionMetrics"
    /\ NoMedianInput
    /\ NoBacklogInput
    /\ now = parseISO(Today)
    /\ NoResults
    /\ NoRoute
    /\ NoActor
    /\ issues \in FixedIssueBatches
    /\ timeRange = "1month"
    /\ prs \in {Numbered(b) :
                    b \in BatchesOf({AuthoredPRKindsAt(c) : c \in PRCreations}, MaxPRs)
                            \cup SeqUpTo(CycleReviewedPRKinds, MaxPRs)}

\* Logins that differ in case, in where a pattern or the [bot] suffix stands,
\* and in being empty
Logins ==
    {"", "alice", "bot", "[bot]", "github-actions[bot]", "robot[bot]x", "alice[BOT]",
     "dependabot", "Dependabot", "DEPENDABOT-preview", "dependabot[bot]",
     "my-dependabot", "depend", "renovate", "Renovate-bot", "renovat",
     "greenkeeper", "GreenKeeperIO-bot", "snyk-bot", "snyk", "Snyk-Bot-2",
     "codecov", "CodeCov-commenter", "allcontributors", "all-contributors",
     "AllContributors[bot]"}

UserTypes == {"User", "Bot", "Organization", "bot"}

Actors == {Null} \cup {User(login, type) : login \in Logins, type \in UserTypes}

InitIsBot ==
    /\ call = "isBot"
    /\ actor \in Actors
    /\ isBotResult = <<>>
    /\ NoMedianInput
    /\ NoBacklogInput
    /\ NoBatch
    /\ now = parseISO(Today)
    /\ NoResults
    /\ NoRoute

-----------------------------------------------------------------------------
(* Actions: one call of an engine function *)

IsBot ==
    /\ call = "isBot"
    /\ isBotResult' = <<isBot(actor)>>
    /\ UNCHANGED <<routeVars, issuesData>>
    /\ UNCHANGED <<actor, call, numbers, medianResult, issues, timeRange, prs, openIssues,
                   openPRs, allPRs, now, issueLifecycle, reviewerInsights,
                   contributorFriction, backlogHealth>>

Median ==
    /\ call = "median"
    /\ medianResult' = <<median(numbers)>>
    /\ numbers' = numbersAfterMedian(numbers)
    /\ UNCHANGED <<actor, isBotResult>>
    /\ UNCHANGED <<routeVars, issuesData>>
    /\ UNCHANGED <<call, issues, timeRange, prs, openIssues, openPRs, allPRs,
                   now, issueLifecycle, reviewerInsights, contributorFriction,
                   backlogHealth>>

CalculateIssueLifecycleMetrics ==
    /\ call = "calculateIssueLifecycleMetrics"
    /\ issueLifecycle' = <<calculateIssueLifecycleMetrics(issues, timeRange, now)>>
    /\ issues' = issuesAfterIssueLifecycle(issues, timeRange, now)
    /\ issuesData' = sharedItems(issuesData, issues', "issue")
    /\ UNCHANGED <<actor, isBotResult>>
    /\ UNCHANGED routeVars
    /\ UNCHANGED <<call, numbers, medianResult, timeRange, prs, openIssues,
                   openPRs, allPRs, now, reviewerInsights, contributorFriction,
                   backlogHealth>>

CalculateReviewerInsightsMetrics ==
    /\ call = "calculateReviewerInsightsMetrics"
    /\ reviewerInsights' = <<calculateReviewerInsightsMetrics(prs)>>
    /\ prs' = prsAfterReviewerInsights(prs)
    /\ allPRs' = sharedItems(allPRs, prs', "pr")
    /\ UNCHANGED <<actor, isBotResult>>
    /\ UNCHANGED <<routeVars, issuesData>>
    /\ UNCHANGED <<call, numbers, medianResult, issues, timeRange, openIssues,
                   openPRs, now, issueLifecycle, contributorFriction,
                   backlogHealth>>

CalculateContributorFrictionMetrics ==
    /\ call = "calculateContributorFrictionMetrics"
    /\ contributorFriction' = <<calculateContributorFrictionMetrics(prs, issues)>>
    /\ LET after == argumentsAfterContributorFriction(prs, issues)
       IN  prs' = after.prs /\ issues' = after.issues
    /\ allPRs' = sharedItems(allPRs, prs', "pr")
    /\ issuesData' = sharedItems(issuesData, issues', "issue")
    /\ UNCHANGED <<actor, isBotResult>>
    /\ UNCHANGED routeVars
    /\ UNCHANGED <<call, numbers, medianResult, timeRange, openIssues,
                   openPRs, now, issueLifecycle, reviewerInsights,
                   backlogHealth>>

CalculateBacklogHealthMetrics ==
    /\ call = "calculateBacklogHealthMetrics"
    /\ backlogHealth' =
           <<calculateBacklogHealthMetrics(openIssues, openPRs, allPRs, now)>>
    /\ LET after == argumentsAfterBacklogHealth(openIssues, openPRs, allPRs, now)
       IN  /\ openIssues' = after.openIssues
           /\ openPRs' = after.openPRs
           /\ allPRs' = after.allPRs
    /\ prs' = sharedItems(prs, allPRs', "pr")
    /\ UNCHANGED <<actor, isBotResult>>
    /\ UNCHANGED <<routeVars, issuesData>>
    /\ UNCHANGED <<call, numbers, medianResult, issues, timeRange, now,
                   issueLifecycle, reviewerInsights,
                   contributorFriction>>

\* The three analyzers that report latencies
SpecLatencies ==
    /\ InitIssueLifecycle \/ InitReviewerInsights \/ InitContributorFriction
    /\ [][\/ CalculateIssueLifecycleMetrics
          \/ CalculateReviewerInsightsMetrics
          \/ CalculateContributorFrictionMetrics]_vars

\* One function at a time
SpecIsBot == InitIsBot /\ [][IsBot]_vars

SpecMedian == InitMedian /\ [][Median]_vars

SpecBacklog == InitBacklog /\ [][CalculateBacklogHealthMetrics]_vars

SpecIssueLifecycle == InitIssueLifecycle /\ [][CalculateIssueLifecycleMetrics]_vars

SpecReviewerInsights == InitReviewerInsights /\ [][CalculateReviewerInsightsMetrics]_vars

SpecContributorFriction ==
    InitContributorFriction /\ [][CalculateContributorFrictionMetrics]_vars

\* The four analyzers
InitAnalyzers ==
    \/ InitIssueLifecycle
    \/ InitReviewerInsights
    \/ InitContributorFriction
    \/ InitBacklog

NextAnalyzers ==
    \/ CalculateIssueLifecycleMetrics
    \/ CalculateReviewerInsightsMetrics
    \/ CalculateContributorFrictionMetrics
    \/ CalculateBacklogHealthMetrics

SpecAnalyzers == InitAnalyzers /\ [][NextAnalyzers]_vars

\* The analyzers in the order in which the route calls them for a window, and
\* the windows in the order in which it goes through them
AnalyzerNames ==
    <<"calculateIssueLifecycleMetrics", "calculateReviewerInsightsMetrics",
      "calculateContributorFrictionMetrics", "calculateBacklogHealthMetrics">>

\* The position of an element in a sequence that holds it once
IndexOf(s, x) == CHOOSE k \in DOMAIN s : s[k] = x

\* threeMonthsAgo of the two fetchers, called at `calledAt`
threeMonthsAgo(calledAt) == setMonth(calledAt, getMonth(calledAt) - 3)

\* fetchIssues: of what GitHub lists, the issues proper created at or after
\* startDate
fetchIssues(listed, startDate) ==
    Filter(listed, LAMBDA item :
        /\ item.issue.pull_request = Null
        /\ parseISO(item.issue.created_at) >= startDate)

\* fetchPullRequests: what GitHub lists before the first PR created before
\* startDate
fetchPullRequests(listed, startDate) ==
    LET older == {k \in DOMAIN listed : parseISO(listed[k].pr.created_at) < startDate}
    IN  IF older = {} THEN listed
        ELSE SubSeq(listed, 1, (CHOOSE k \in older : \A j \in older : k <= j) - 1)

\* issuesData.filter(({ issue }) => new Date(issue.created_at) >= rangeStartDate)
filteredIssuesData(range) ==
    Filter(issuesData, LAMBDA item :
        parseISO(item.issue.created_at) >= getStartDate(range, now))

\* prsData.filter(({ pr }) => new Date(pr.created_at) >= rangeStartDate); the
\* route gives prsData itself to the backlog analyzer as allPRs
filteredPRsData(range) ==
    Filter(allPRs, LAMBDA item : parseISO(item.pr.created_at) >= getStartDate(range, now))

\* issuesData.filter(open).map(({ issue }) => issue), and the same of prsData
openIssuesOf(items) ==
    LET open == Filter(items, LAMBDA item : item.issue.state = "open")
    IN  [k \in DOMAIN open |-> open[k].issue]

openPRsOf(items) ==
    LET open == Filter(items, LAMBDA item : item.pr.state = "open")
    IN  [k \in DOMAIN open |-> open[k].pr]

\* GitHub lists issues and PRs sorted by creation, newest first
IsNewestFirst(created) == \A i, j \in DOMAIN created : i < j => created[i] >= created[j]

\* GitHub numbers what it lists: the oldest is number `from`
NumberedFrom(items, field, from) ==
    [k \in DOMAIN items |->
        [items[k] EXCEPT ![field] = [@ EXCEPT !.number = from + Len(items) - k]]]

\* When the listed issues and PRs were created: in the last week, month and
\* three months, half an hour before the three months began and earlier
ListedCreations == {Ago(3, 0), Ago(20, 0), Ago(60, 0), Ago(91, 30), Ago(100, 0)}

\* The fetchers are called as the loop runs or an hour before
FetchCalls == {parseISO(Today) - Hours(1), parseISO(Today)}

ListedIssueKinds ==
    UNION {{k \in IrregularIssueKindsAt(c, c) : Len(k.events) = 3} : c \in ListedCreations}

ListedPRKinds ==
    UNION {{k \in RepeatReviewedPRKindsAt(c) : Len(k.reviews) >= 3} : c \in ListedCreations}

ListedIssues ==
    {b \in SeqUpTo(ListedIssueKinds, MaxIssues) :
        IsNewestFirst([k \in DOMAIN b |-> parseISO(b[k].issue.created_at)])}

ListedPRs ==
    {b \in SeqUpTo(ListedPRKinds, MaxPRs) :
        IsNewestFirst([k \in DOMAIN b |-> parseISO(b[k].pr.created_at)])}

\* A repository of which either the issues or the PRs are those of a week ago
\* and of two months ago
Listings ==
    LET issueOf(c) == CHOOSE k \in IrregularIssueKindsAt(c, c) :
                          k.issue.state = "open" /\ Len(k.events) = 3
        prOf(c) == CHOOSE k \in RepeatReviewedPRKindsAt(c) : k.pr.state = "open"
    IN  {[issues |-> b, prs |-> <<prOf(Ago(3, 0)), prOf(Ago(60, 0))>>] : b \in ListedIssues}
            \cup {[issues |-> <<issueOf(Ago(3, 0)), issueOf(Ago(60, 0))>>, prs |-> b] :
                      b \in ListedPRs}

\* The two fetchers have returned and the route is about to make the first
\* call of its loop, for the first window
InitSharedBatch ==
    /\ call = AnalyzerNames[1]
    /\ timeRange = timeRanges[1]
    /\ NoMedianInput
    /\ NoActor
    /\ NoResults
    /\ NoRequests
    /\ now = parseISO(Today)
    /\ \E listed \in Listings, calledAt \in FetchCalls :
           /\ issuesData = fetchIssues(NumberedFrom(listed.issues, "issue",
                                                    Len(listed.prs) + 1),
                                       threeMonthsAgo(calledAt))
           /\ allPRs = fetchPullRequests(NumberedFrom(listed.prs, "pr", 1),
                                         threeMonthsAgo(calledAt))
    /\ issues = filteredIssuesData(timeRange)
    /\ prs = filteredPRsData(timeRange)
    /\ openIssues = openIssuesOf(issuesData)
    /\ openPRs = openPRsOf(allPRs)

\* The call the route is about to make has returned
Returned ==
    CASE call = "calculateIssueLifecycleMetrics" -> issueLifecycle # <<>>
      [] call = "calculateReviewerInsightsMetrics" -> reviewerInsights # <<>>
      [] call = "calculateContributorFrictionMetrics" -> contributorFriction # <<>>
      [] call = "calculateBacklogHealthMetrics" -> backlogHealth # <<>>

\* The route goes on to the next call of the window or, after the last one, to
\* the first call of the next window, for which it filters the fetched batch
\* again
SelectAnalyzer ==
    /\ call \in {AnalyzerNames[k] : k \in DOMAIN AnalyzerNames}
    /\ Returned
    /\ IF call # AnalyzerNames[Len(AnalyzerNames)]
       THEN /\ call' = AnalyzerNames[IndexOf(AnalyzerNames, call) + 1]
            /\ openIssues' = openIssuesOf(issuesData)
            /\ openPRs' = openPRsOf(allPRs)
            /\ UNCHANGED <<timeRange, issues, prs, issueLifecycle, reviewerInsights,
                           contributorFriction, backlogHealth>>
       ELSE /\ timeRange # timeRanges[Len(timeRanges)]
            /\ call' = AnalyzerNames[1]
            /\ timeRange' = timeRanges[IndexOf(timeRanges, timeRange) + 1]
            /\ issues' = filteredIssuesData(timeRange')
            /\ prs' = filteredPRsData(timeRange')
            /\ issueLifecycle' = <<>>
            /\ reviewerInsights' = <<>>
            /\ contributorFriction' = <<>>
            /\ backlogHealth' = <<>>
            /\ UNCHANGED <<openIssues, openPRs>>
    /\ UNCHANGED <<numbers, medianResult, allPRs, issuesData, now, actor, isBotResult>>
    /\ UNCHANGED routeVars

\* The loop of the route over the three windows, on one fetched batch
SpecRepeatedCalls == InitSharedBatch /\ [][SelectAnalyzer \/ NextAnalyzers]_vars

\* The route with a cold cache: no engine function is being applied
InitRoute ==
    /\ call = "GET"
    /\ NoMedianInput
    /\ NoBacklogInput
    /\ NoBatch
    /\ NoActor
    /\ NoResults
    /\ NoRoute
    /\ now = parseISO(Today)

engineVars ==
    <<call, numbers, medianResult, issues, timeRange, prs, openIssues, openPRs, allPRs,
      issuesData, now, issueLifecycle, reviewerInsights, contributorFriction, backlogHealth,
      actor, isBotResult>>

\* A GET request reaches the handler: without owner or repo, or with a time
\* range that is not valid, it is answered 400; otherwise the handler calls
\* getCachedAnalytics
Arrive(r) ==
    /\ call = "GET"
    /\ At(r, "idle")
    /\ \E named \in BOOLEAN, timeRangeParam \in TimeRangeParams :
           IF ~named \/ ~includes(validTimeRanges, timeRangeParam)
           THEN Respond(r, 400)
           ELSE requests' = [requests EXCEPT ![r] =
                                 [pc |-> "getCachedAnalytics", response |-> 0,
                                  calledAt |-> clock, timeRange |-> timeRangeParam]]
    /\ UNCHANGED <<cache, clock, engineVars>>

\* Check cache first: the data of a complete row are served; otherwise the
\* handler calls getCacheEntry
CheckCached(r) ==
    /\ At(r, "getCachedAnalytics")
    /\ IF getCachedAnalytics(requests[r].timeRange, requests[r].calledAt) # Null
       THEN Respond(r, 200)
       ELSE GoTo(r, "getCacheEntry")
    /\ UNCHANGED <<cache, clock, engineVars>>

\* Check for a pending row: 500 when it is overdue, 202 otherwise
CheckPending(r) ==
    LET cacheEntry == getCacheEntry(requests[r].calledAt)
    IN  /\ At(r, "getCacheEntry")
        /\ IF cacheEntry # Null /\ cacheEntry.status = "pending"
           THEN IF isOverdue(cacheEntry) THEN Respond(r, 500) ELSE Respond(r, 202)
           ELSE GoTo(r, "fetchRepositoryInfo")
        /\ UNCHANGED <<cache, clock, engineVars>>

\* fetchRepositoryInfo returns and the handler calls setCachedAnalytics with
\* status pending, or it raises and the request is answered
FetchRepositoryInfo(r) ==
    /\ At(r, "fetchRepositoryInfo")
    /\ \/ GoTo(r, "setPending")
       \/ \E status \in RepositoryFailures : Respond(r, status)
    /\ UNCHANGED <<cache, clock, engineVars>>

\* Set status to pending before fetching: the insert is done and the handler
\* calls the two fetchers
SetPending(r) ==
    /\ At(r, "setPending")
    /\ cache' = cachedRow(NoResponses, "pending", requests[r].calledAt)
    /\ GoTo(r, "fetching")
    /\ UNCHANGED <<clock, engineVars>>

\* The fetches return, the three windows are computed and the handler calls
\* setCachedAnalytics with status complete
Generate(r) ==
    /\ At(r, "fetching")
    /\ GoTo(r, "setComplete")
    /\ UNCHANGED <<cache, clock, engineVars>>

\* A fetch or the computation raises: the catch block answers and leaves the
\* row as it is
GenerationFails(r) ==
    /\ At(r, "fetching")
    /\ \E status \in GenerationFailures : Respond(r, status)
    /\ UNCHANGED <<cache, clock, engineVars>>

\* Cache all time ranges together and return the requested one
SetComplete(r) ==
    /\ At(r, "setComplete")
    /\ cache' = cachedRow(Responses, "complete", requests[r].calledAt)
    /\ Respond(r, 200)
    /\ UNCHANGED <<clock, engineVars>>

\* updateCacheStatus(owner, repo, status): the status of the row, expired or
\* not, is set; without a row nothing changes
UpdateCacheStatus ==
    /\ call = "GET"
    /\ \E status \in CacheStatus :
           cache' = IF cache = Null THEN Null ELSE [cache EXCEPT !.status = status]
    /\ UNCHANGED <<clock, requests, engineVars>>

\* deleteExpiredCache(), called at `at`: the row is deleted if it had expired
\* by then
DeleteExpiredCache ==
    /\ call = "GET"
    /\ \E at \in Instants :
           /\ at <= clock
           /\ cache' = IF cache # Null /\ cache.expiresAt <= at THEN Null ELSE cache
    /\ UNCHANGED <<clock, requests, engineVars>>

\* Time passes
Tick ==
    /\ call = "GET"
    /\ \E later \in Instants :
           /\ later > clock
           /\ clock' = later
    /\ UNCHANGED <<cache, requests, engineVars>>

Handle(r) ==
    \/ Arrive(r)
    \/ CheckCached(r)
    \/ CheckPending(r)
    \/ FetchRepositoryInfo(r)
    \/ SetPending(r)
    \/ Generate(r)
    \/ GenerationFails(r)
    \/ SetComplete(r)

\* The exported cache utilities, which no request handler calls
Maintain == UpdateCacheStatus \/ DeleteExpiredCache

NextRoute == Tick \/ Maintain \/ \E r \in Requests : Handle(r)

\* GET requests for one repository, handled concurrently
SpecRoute == InitRoute /\ [][NextRoute]_vars

\* Every awaited step of a handler returns, time passes and clients keep
\* sending requests; nothing makes anybody call the cache utilities
SpecRouteFair ==
    /\ SpecRoute
    /\ WF_vars(Tick)
    /\ \A r \in Requests : WF_vars(Handle(r))

\* The whole engine
Init == InitMedian \/ InitIsBot \/ InitAnalyzers \/ InitRoute

Next == Median \/ IsBot \/ NextAnalyzers \/ NextRoute

Spec == Init /\ [][Next]_vars

-----------------------------------------------------------------------------
(* Vocabulary of the properties, stated on the arguments of the call *)

BacklogComputed == backlogHealth # <<>>
BH == backlogHealth[1]

\* Whole days between creation and now
AgeInDays(item) == (now - parseISO(item.created_at)) \div MinutesPerDay

IssuesAged(lo, hi) ==
    {i \in DOMAIN openIssues :
        AgeInDays(openIssues[i]) >= lo /\ AgeInDays(openIssues[i]) <= hi}
IssuesOlderThan(days) == {i \in DOMAIN openIssues : AgeInDays(openIssues[i]) > days}
PRsAged(lo, hi) ==
    {i \in DOMAIN openPRs : AgeInDays(openPRs[i]) >= lo /\ AgeInDays(openPRs[i]) <= hi}
PRsOlderThan(days) == {i \in DOMAIN openPRs : AgeInDays(openPRs[i]) > days}

\* A review by a present author that is not a bot
HumanReviewsOf(reviews) ==
    {k \in DOMAIN reviews : reviews[k].user # Null /\ ~isBot(reviews[k].user)}

\* The historical records carrying the number of an open PR
RecordsOf(pr) == {j \in DOMAIN allPRs : allPRs[j].pr.number = pr.number}

\* The open PR has a matching historical record (the first one with its number)
\* with at least one human review
HasHumanReview(pr) ==
    /\ RecordsOf(pr) # {}
    /\ LET j == CHOOSE m \in RecordsOf(pr) : \A o \in RecordsOf(pr) : m <= o
       IN  HumanReviewsOf(allPRs[j].reviews) # {}

UnreviewedPRs == {i \in DOMAIN openPRs : ~HasHumanReview(openPRs[i])}
UnlabeledIssues == {i \in DOMAIN openIssues : openIssues[i].labels = <<>>}
OrphanIssues ==
    {i \in DOMAIN openIssues :
        openIssues[i].assignees = <<>> /\ openIssues[i].pull_request = Null}

\* The percentage |part| / whole * 100 as a JavaScript number, 0 for an
\* empty population
PercentOf(part, whole) ==
    IF whole = 0 THEN Num(0) ELSE RMul(Frac(Cardinality(part), whole), Num(100))

\* The formula of the score in real numbers.  Every term is a whole number of
\* tenths of a percentage point divided by the size of its population, so the
\* value is a fraction of integers: ScoreNumerator / ScoreScale.
IssuePopulation == IF openIssues = <<>> THEN 1 ELSE Len(openIssues)
PRPopulation == IF openPRs = <<>> THEN 1 ELSE Len(openPRs)
ScoreScale == 10 * IssuePopulation * PRPopulation

\* min(ceiling, tenths / 10 * p) * 10 * whole, for p = 100 * |part| / whole
CappedTenths(ceiling, tenths, part, whole) ==
    IF tenths * 100 * Cardinality(part) < ceiling * 10 * whole
    THEN tenths * 100 * Cardinality(part)
    ELSE ceiling * 10 * whole

\* The three issue-age terms, left out without open issues
StaleIssueTenths ==
    IF openIssues = <<>> THEN 0
    ELSE CappedTenths(30, 20, IssuesOlderThan(90), IssuePopulation)
         + CappedTenths(30, 5, IssuesAged(61, 90), IssuePopulation)
         + CappedTenths(30, 1, IssuesAged(31, 60), IssuePopulation)

\* The three PR-age terms, left out without open PRs
StalePRTenths ==
    IF openPRs = <<>> THEN 0
    ELSE CappedTenths(15, 20, PRsOlderThan(30), PRPopulation)
         + CappedTenths(15, 5, PRsAged(15, 30), PRPopulation)
         + CappedTenths(15, 1, PRsAged(8, 14), PRPopulation)

\* 100 less the nine capped terms, times ScoreScale
UnclampedNumerator ==
    100 * ScoreScale
    - PRPopulation * (StaleIssueTenths
                      + CappedTenths(20, 2, UnlabeledIssues, IssuePopulation)
                      + CappedTenths(20, 2, OrphanIssues, IssuePopulation))
    - IssuePopulation * (StalePRTenths
                         + CappedTenths(15, 2, UnreviewedPRs, PRPopulation))

ScoreNumerator ==
    IF UnclampedNumerator < 0 THEN 0
    ELSE IF UnclampedNumerator > 100 * ScoreScale THEN 100 * ScoreScale
    ELSE UnclampedNumerator

\* a * b of real numbers, kept whole
ExactProduct(a, b) ==
    IF IsZero(a) \/ IsZero(b) THEN Zero
    ELSE Exactly(a.s * b.s, NatTimesNat(a.m, b.m), a.e + b.e)

\* What the roundings of the score's arithmetic may add up to: 2^-30, less than
\* a billionth, and far less than the step between two values of the formula
RoundingTolerance == [s |-> 1, m |-> <<1>>, e |-> -2]

\* x * scale - numerator, the distance of x from numerator / scale times scale
ScaledDistance(x, numerator, scale) ==
    ExactSum(ExactProduct(x, Num(scale)), Num(-numerator))

\* |x - numerator / scale| <= RoundingTolerance, in real numbers
WithinRounding(x, numerator, scale) ==
    LET d == ScaledDistance(x, numerator, scale)
    IN  RLeq(IF d.s < 0 THEN RNeg(d) ELSE d,
             ExactProduct(Num(scale), RoundingTolerance))

\* Every open issue is over 90 days old, unlabeled and orphan, and every open PR
\* is over 30 days old and unreviewed
WhollyNeglected ==
    /\ openIssues # <<>>
    /\ openPRs # <<>>
    /\ IssuesOlderThan(90) = DOMAIN openIssues
    /\ UnlabeledIssues = DOMAIN openIssues
    /\ OrphanIssues = DOMAIN openIssues
    /\ PRsOlderThan(30) = DOMAIN openPRs
    /\ UnreviewedPRs = DOMAIN openPRs

\* Every open issue is at most 30 days old and labeled, every open PR at most 7
\* days old and reviewed by a human
FreshLabeledReviewed ==
    /\ IssuesOlderThan(30) = {}
    /\ UnlabeledIssues = {}
    /\ PRsOlderThan(7) = {}
    /\ UnreviewedPRs = {}

-----------------------------------------------------------------------------
(* Backlog health: properties *)

\* C1: the backlog score lies in [0, 100] for every backlog, and a wholly
\* neglected backlog scores exactly 0
C1_ScoreWithinRange ==
    BacklogComputed =>
        /\ RLeq(Num(0), BH.score)
        /\ RLeq(BH.score, Num(100))
        /\ (WhollyNeglected => BH.score = Num(0))

C1_Witness ==
    /\ BacklogComputed
    /\ WhollyNeglected
    /\ BH.score = Num(0)

\* baseScore of the call that returned BH, after each group of subtractions
ScoreAfterStaleIssues == baseScoreAfterStaleIssues(BH.issues.byAge, BH.issues.totalOpen)

ScoreAfterOrphan ==
    baseScoreAfterOrphan(BH.issues.byAge, BH.issues.unlabeledPercentage,
                         BH.issues.orphanPercentage, BH.issues.totalOpen)

ScoreAfterStalePRs ==
    baseScoreAfterStalePRs(BH.issues.byAge, BH.issues.unlabeledPercentage,
                           BH.issues.orphanPercentage, BH.pullRequests.byAge,
                           BH.issues.totalOpen, BH.pullRequests.totalOpen)

\* before - after <= ceiling, the difference taken without rounding
TakesOffAtMost(before, after, ceiling) ==
    RLeq(before, ExactSum(after, Num(ceiling)))

\* C2: each of the five deductions stays within its ceiling: the subtractions
\* for stale issues take at most 30 off the running score and those for stale
\* PRs at most 15, and the terms subtracted for unlabeled issues, orphan
\* issues and PRs without review are at most 20, 20 and 15
C2_DeductionsWithinCeilings ==
    BacklogComputed =>
        /\ TakesOffAtMost(Num(100), ScoreAfterStaleIssues, 30)
        /\ RLeq(unlabeledDeduction(BH.issues.unlabeledPercentage), Num(20))
        /\ RLeq(orphanDeduction(BH.issues.orphanPercentage), Num(20))
        /\ TakesOffAtMost(ScoreAfterOrphan, ScoreAfterStalePRs, 15)
        /\ RLeq(withoutReviewDeduction(BH.pullRequests.withoutReviewPercentage),
                Num(15))

\* C3: the score is clamp(100 - the nine capped terms), the issue-age terms
\* left out without open issues and the PR-age terms without open PRs: the
\* JavaScript number returned lies within RoundingTolerance of the value the
\* formula has in real numbers
C3_ScoreFormula ==
    BacklogComputed => WithinRounding(BH.score, ScoreNumerator, ScoreScale)

\* Two of three issues aged 31 to 60 days, one unlabeled, one orphan, and a
\* reviewed PR aged 8 to 14 days: the formula gives 70 and the score is the
\* number next below 70
C3_Witness ==
    /\ BacklogComputed
    /\ Len(openIssues) = 3
    /\ Cardinality(IssuesAged(31, 60)) = 2
    /\ IssuesOlderThan(60) = {}
    /\ Cardinality(UnlabeledIssues) = 1
    /\ Cardinality(OrphanIssues) = 1
    /\ Len(openPRs) = 1
    /\ PRsAged(8, 14) # {}
    /\ UnreviewedPRs = {}
    /\ ScoreNumerator = 70 * ScoreScale
    /\ RLt(BH.score, Num(70))
    /\ WithinRounding(BH.score, ScoreNumerator, ScoreScale)

\* Terms of both issue buckets, a PR bucket and the review term together
C3_MixedTermsReached ==
    /\ BacklogComputed
    /\ IssuesAged(31, 60) # {}
    /\ IssuesAged(61, 90) # {}
    /\ PRsAged(8, 14) # {}
    /\ UnreviewedPRs # {}
    /\ RLt(Num(0), BH.score)
    /\ UnclampedNumerator = ScoreNumerator
    /\ WithinRounding(BH.score, ScoreNumerator, ScoreScale)

\* Twelve of thirteen fresh, assigned issues without a label and no open PR:
\* the formula gives 1060 / 13, which no JavaScript number is, and the score
\* is 5737759140640296 * 2^-46, the second number above it
C3_ThirteenthsReached ==
    /\ BacklogComputed
    /\ Len(openIssues) = MaxCrowdedIssues
    /\ Cardinality(UnlabeledIssues) = MaxCrowdedIssues - 1
    /\ IssuesOlderThan(30) = {}
    /\ OrphanIssues = {}
    /\ openPRs = <<>>
    /\ RLt(Num(0), ScaledDistance(BH.score, ScoreNumerator, ScoreScale))
    /\ WithinRounding(BH.score, ScoreNumerator, ScoreScale)

\* C4 as stated: a fresh, labeled, reviewed backlog scores exactly 100
C4_FreshBacklogScores100 ==
    (BacklogComputed /\ FreshLabeledReviewed) => BH.score = Num(100)

\* C4 amended: a fresh, labeled, reviewed backlog in which every open issue has
\* an assignee or an attached pull request scores exactly 100
C4_FreshAssignedBacklogScores100 ==
    (BacklogComputed /\ FreshLabeledReviewed /\ OrphanIssues = {})
        => BH.score = Num(100)

C4_Witness ==
    /\ BacklogComputed
    /\ openIssues # <<>>
    /\ openPRs # <<>>
    /\ FreshLabeledReviewed
    /\ OrphanIssues = {}
    /\ BH.score = Num(100)

\* C5: the label is decided by the score alone: Healthy from 70, Needs
\* Attention from 40 to below 70, Overloaded below 40
C5_LabelFromScore ==
    BacklogComputed =>
        /\ BH.label \in {"Healthy", "Needs Attention", "Overloaded"}
        /\ (BH.label = "Healthy") <=> RLeq(Num(70), BH.score)
        /\ (BH.label = "Needs Attention")
               <=> (RLeq(Num(40), BH.score) /\ RLt(BH.score, Num(70)))
        /\ (BH.label = "Overloaded") <=> RLt(BH.score, Num(40))

C5_Witness ==
    /\ BacklogComputed
    /\ BH.score = Num(70)
    /\ BH.label = "Healthy"

\* A score that rounding leaves just below 70 is labeled as a score below 70
C5_JustBelowSeventyReached ==
    /\ BacklogComputed
    /\ RLt(Frac(6999, 100), BH.score)
    /\ RLt(BH.score, Num(70))
    /\ BH.label = "Needs Attention"

\* C6: every open issue and every open PR is counted in exactly the bucket of
\* its age in whole days, so each histogram sums to totalOpen
C6_AgeBuckets ==
    BacklogComputed =>
        /\ BH.issues.totalOpen = Len(openIssues)
        /\ BH.issues.byAge["0-30"] + BH.issues.byAge["31-60"]
             + BH.issues.byAge["61-90"] + BH.issues.byAge["90+"] = BH.issues.totalOpen
        /\ BH.issues.byAge["0-30"] = Cardinality(DOMAIN openIssues \ IssuesOlderThan(30))
        /\ BH.issues.byAge["31-60"] = Cardinality(IssuesAged(31, 60))
        /\ BH.issues.byAge["61-90"] = Cardinality(IssuesAged(61, 90))
        /\ BH.issues.byAge["90+"] = Cardinality(IssuesOlderThan(90))
        /\ BH.pullRequests.totalOpen = Len(openPRs)
        /\ BH.pullRequests.byAge["0-7"] + BH.pullRequests.byAge["8-14"]
             + BH.pullRequests.byAge["15-30"] + BH.pullRequests.byAge["30+"]
             = BH.pullRequests.totalOpen
        /\ BH.pullRequests.byAge["0-7"] = Cardinality(DOMAIN openPRs \ PRsOlderThan(7))
        /\ BH.pullRequests.byAge["8-14"] = Cardinality(PRsAged(8, 14))
        /\ BH.pullRequests.byAge["15-30"] = Cardinality(PRsAged(15, 30))
        /\ BH.pullRequests.byAge["30+"] = Cardinality(PRsOlderThan(30))

\* An issue of age exactly 30 and one of age 31, counted in "0-30" and "31-60"
C6_Witness ==
    /\ BacklogComputed
    /\ Len(openIssues) = 2
    /\ IssuesAged(30, 30) # {}
    /\ IssuesAged(31, 31) # {}
    /\ BH.issues.byAge["0-30"] = 1
    /\ BH.issues.byAge["31-60"] = 1

\* C7: withoutReview counts the open PRs with no matching historical record or
\* whose matching record has no review by a present, non-bot author
C7_WithoutReview ==
    BacklogComputed =>
        /\ BH.pullRequests.withoutReview = Cardinality(UnreviewedPRs)
        /\ BH.pullRequests.withoutReview <= BH.pullRequests.totalOpen

\* An open PR whose record holds reviews, all by bots or absent authors
C7_Witness ==
    /\ BacklogComputed
    /\ \E i \in DOMAIN openPRs :
          /\ RecordsOf(openPRs[i]) # {}
          /\ \E j \in RecordsOf(openPRs[i]) :
                allPRs[j].reviews # <<>> /\ HumanReviewsOf(allPRs[j].reviews) = {}
          /\ i \in UnreviewedPRs
    /\ BH.pullRequests.withoutReview >= 1

-----------------------------------------------------------------------------
(* Median: properties *)

MedianComputed == medianResult # <<>>

\* The k-th smallest of numbers, counted with repetitions, k in 1..Len(numbers)
KthSmallest(k) ==
    CHOOSE v \in {numbers[i] : i \in DOMAIN numbers} :
        /\ Cardinality({i \in DOMAIN numbers : numbers[i] < v}) < k
        /\ Cardinality({i \in DOMAIN numbers : numbers[i] <= v}) >= k

\* numbers with the elements at i and j exchanged
Swapped(i, j) ==
    [k \in DOMAIN numbers |->
        IF k = i THEN numbers[j] ELSE IF k = j THEN numbers[i] ELSE numbers[k]]

\* C8: median is 0 for no values, the middle value in ascending order for an
\* odd count, the mean of the two middle values for an even count, and does
\* not depend on the order of the values
C8_Median ==
    MedianComputed =>
        LET n == Len(numbers)
        IN  /\ (n = 0) => medianResult[1] = Num(0)
            /\ (n % 2 = 1) => medianResult[1] = Num(KthSmallest((n + 1) \div 2))
            /\ (n > 0 /\ n % 2 = 0) =>
                  medianResult[1]
                      = Frac(KthSmallest(n \div 2) + KthSmallest(n \div 2 + 1), 2)
            /\ \A i, j \in DOMAIN numbers : median(Swapped(i, j)) = medianResult[1]

\* Three values out of order, whose median is the middle one by value
C8_Witness ==
    /\ MedianComputed
    /\ numbers = <<3, 1, 2>>
    /\ medianResult[1] = Num(2)

-----------------------------------------------------------------------------
(* Percentages and latencies: properties *)

LifecycleComputed == issueLifecycle # <<>>
ReviewerComputed == reviewerInsights # <<>>
FrictionComputed == contributorFriction # <<>>
IL == issueLifecycle[1]
RI == reviewerInsights[1]
CF == contributorFriction[1]

IsPercentage(x) == RLeq(Num(0), x) /\ RLeq(x, Num(100))

\* A percentage over a population of the given size
PercentageOver(x, population) == IF population = 0 THEN x = Num(0) ELSE IsPercentage(x)

\* C9: every percentage of the output records is 0 when its population is
\* empty and lies in [0, 100] otherwise
C9_Percentages ==
    /\ LifecycleComputed =>
          /\ PercentageOver(IL.staleIssueRate.after30Days, Len(issues))
          /\ PercentageOver(IL.staleIssueRate.after60Days, Len(issues))
          /\ PercentageOver(IL.staleIssueRate.after90Days, Len(issues))
          /\ PercentageOver(IL.reopenedIssueRate, Len(issues))
    /\ FrictionComputed =>
          /\ CF.firstTimePRs + CF.returningPRs = Len(prs)
          /\ PercentageOver(CF.firstTimeMergeRate, CF.firstTimePRs)
          /\ PercentageOver(CF.returningMergeRate, CF.returningPRs)
    /\ BacklogComputed =>
          /\ PercentageOver(BH.issues.unlabeledPercentage, Len(openIssues))
          /\ PercentageOver(BH.issues.orphanPercentage, Len(openIssues))
          /\ PercentageOver(BH.pullRequests.withoutReviewPercentage, Len(openPRs))

\* A batch with first-time PRs, all merged, and no returning PR
C9_Witness ==
    /\ FrictionComputed
    /\ CF.firstTimePRs = 2
    /\ CF.returningPRs = 0
    /\ CF.firstTimeMergeRate = Num(100)
    /\ CF.returningMergeRate = Num(0)

NonNegative(x) == RLeq(Num(0), x)

\* Minutes from the creation of an item to a later stamp on it
MinutesAfterCreation(stamp, created_at) == parseISO(stamp) - parseISO(created_at)

HoursAfterCreation(stamp, created_at) ==
    Trunc(MinutesAfterCreation(stamp, created_at), MinutesPerHour)

IssueStamps(item) ==
    {item.comments[k].created_at : k \in DOMAIN item.comments}
        \cup {item.events[k].created_at : k \in DOMAIN item.events}
        \cup (IF item.issue.closed_at = Null THEN {} ELSE {item.issue.closed_at})

\* An issue with a comment, every comment, event and closing time of which is
\* stamped before the creation of the issue
OnlyNegativeIssue(item) ==
    /\ item.comments # <<>>
    /\ \A t \in IssueStamps(item) : MinutesAfterCreation(t, item.issue.created_at) < 0

\* The same, every stamp at least one whole hour before the creation
OnlyWholeHourNegativeIssue(item) ==
    /\ item.comments # <<>>
    /\ \A t \in IssueStamps(item) : HoursAfterCreation(t, item.issue.created_at) < 0

\* An unmerged PR with human reviews, every review stamped before the
\* creation of the PR
OnlyNegativePR(item) ==
    /\ HumanReviewsOf(item.reviews) # {}
    /\ \A k \in DOMAIN item.reviews :
          MinutesAfterCreation(item.reviews[k].submitted_at, item.pr.created_at) < 0
    /\ ~item.pr.merged

\* The batch with one more item, put last or first
WithIssue(x) == {Append(issues, x), <<x>> \o issues}
WithPR(x) ==
    LET numbered == [x EXCEPT !.pr = [@ EXCEPT !.number = Len(prs) + 1]]
    IN  {Append(prs, numbered), <<numbered>> \o prs}

SeriesEntry(series, date) ==
    LET hits == {k \in DOMAIN series : series[k].date = date}
    IN  IF hits = {} THEN [medianTimeToFirstResponse |-> Num(0),
                           medianTimeToResolution |-> Num(0)]
        ELSE series[CHOOSE k \in hits : TRUE]

SameLifecycleMedians(a, b) ==
    /\ a.medianTimeToFirstResponse = b.medianTimeToFirstResponse
    /\ a.medianTimeToFirstMeaningfulResponse = b.medianTimeToFirstMeaningfulResponse
    /\ a.medianTimeToTriage = b.medianTimeToTriage
    /\ a.medianTimeToResolution = b.medianTimeToResolution
    /\ \A k \in DOMAIN a.timeSeries :
          LET e == a.timeSeries[k]
              o == SeriesEntry(b.timeSeries, e.date)
          IN  /\ e.medianTimeToFirstResponse = o.medianTimeToFirstResponse
              /\ e.medianTimeToResolution = o.medianTimeToResolution

\* Adding any issue of the set changes no median of the issue lifecycle
\* record, nor of any time-series bucket
LifecycleMediansUnchangedBy(added) ==
    \A x \in added :
        \A batch \in WithIssue(x) :
            SameLifecycleMedians(calculateIssueLifecycleMetrics(batch, timeRange, now), IL)

ReviewerMediansUnchangedBy(added) ==
    \A x \in added :
        \A batch \in WithPR(x) :
            LET r == calculateReviewerInsightsMetrics(batch)
            IN  /\ r.medianTimeToFirstReview = RI.medianTimeToFirstReview
                /\ r.medianTimeFromReviewToMerge = RI.medianTimeFromReviewToMerge

FrictionMediansUnchangedBy(added) ==
    \A x \in added :
        \A batch \in WithPR(x) :
            LET r == calculateContributorFrictionMetrics(batch, issues)
            IN  /\ r.firstTimeMedianTimeToReview = CF.firstTimeMedianTimeToReview
                /\ r.returningMedianTimeToReview = CF.returningMedianTimeToReview

PRAuthors == {prs[k].pr.user.login : k \in DOMAIN prs}

MediansNonNegative ==
    /\ LifecycleComputed =>
          /\ NonNegative(IL.medianTimeToFirstResponse)
          /\ NonNegative(IL.medianTimeToFirstMeaningfulResponse)
          /\ NonNegative(IL.medianTimeToTriage)
          /\ NonNegative(IL.medianTimeToResolution)
          /\ \A k \in DOMAIN IL.timeSeries :
                /\ NonNegative(IL.timeSeries[k].medianTimeToFirstResponse)
                /\ NonNegative(IL.timeSeries[k].medianTimeToResolution)
    /\ ReviewerComputed =>
          /\ NonNegative(RI.medianTimeToFirstReview)
          /\ NonNegative(RI.medianTimeFromReviewToMerge)
    /\ FrictionComputed =>
          /\ NonNegative(CF.firstTimeMedianTimeToReview)
          /\ NonNegative(CF.returningMedianTimeToReview)

\* C10: no reported median latency is negative, and adding to a batch an issue
\* or PR whose only samples are negative (stamped before the creation of the
\* item) changes no median latency of the issue lifecycle and reviewer records
C10_NegativeSamplesLeftOut ==
    /\ MediansNonNegative
    /\ LifecycleComputed =>
          LifecycleMediansUnchangedBy({i \in IssueItemKinds : OnlyNegativeIssue(i)})
    /\ ReviewerComputed =>
          ReviewerMediansUnchangedBy({i \in ReviewedPRKinds : OnlyNegativePR(i)})

\* C10, what the code keeps of it: the medians are unchanged when every stamp
\* of the added item is at least one whole hour before its creation and, for
\* the friction record, the author of the added PR has no other PR in the batch
C10_WholeHourNegativeSamplesLeftOut ==
    /\ MediansNonNegative
    /\ LifecycleComputed =>
          LifecycleMediansUnchangedBy({i \in IssueItemKinds : OnlyWholeHourNegativeIssue(i)})
    /\ ReviewerComputed =>
          ReviewerMediansUnchangedBy({i \in ReviewedPRKinds : OnlyNegativePR(i)})
    /\ FrictionComputed =>
          FrictionMediansUnchangedBy({i \in AuthoredPRKinds :
              OnlyNegativePR(i) /\ i.pr.user.login \notin PRAuthors})

\* A batch of two issues, one answered six hours after its creation, the
\* other answered half an hour before its own: the second response is kept
\* as a sample of zero hours, which halves the median
C10_Witness ==
    /\ LifecycleComputed
    /\ Len(issues) = 2
    /\ ~OnlyNegativeIssue(issues[1])
    /\ OnlyNegativeIssue(issues[2])
    /\ ~OnlyWholeHourNegativeIssue(issues[2])
    /\ calculateIssueLifecycleMetrics(<<issues[1]>>, timeRange, now).medianTimeToFirstResponse = Num(6)
    /\ IL.medianTimeToFirstResponse = Num(3)

-----------------------------------------------------------------------------
(* Reviewer leaderboard: properties *)

\* The first human review of a PR by submission time is stamped a negative
\* number of hours after the creation of the PR
FirstReviewBeforeCreation(item) ==
    /\ HumanReviewsOf(item.reviews) # {}
    /\ \E k \in HumanReviewsOf(item.reviews) :
          /\ \A j \in HumanReviewsOf(item.reviews) :
                parseISO(item.reviews[k].submitted_at) <= parseISO(item.reviews[j].submitted_at)
          /\ HoursAfterCreation(item.reviews[k].submitted_at, item.pr.created_at) < 0

\* C11: the average time to first review of every entry of topReviewers is
\* not negative
C11_LeaderboardAverageNonNegative ==
    ReviewerComputed =>
        \A k \in DOMAIN RI.topReviewers :
            NonNegative(RI.topReviewers[k].avgTimeToFirstReview)

\* A batch of one PR whose only human review is stamped three hours before
\* the creation of the PR, which puts its reviewer on the leaderboard
C11_Witness ==
    /\ ReviewerComputed
    /\ Len(prs) = 1
    /\ FirstReviewBeforeCreation(prs[1])
    /\ Len(RI.topReviewers) = 1
    /\ RI.medianTimeToFirstReview = Num(0)

-----------------------------------------------------------------------------
(* Bot classifier: properties *)

IsBotComputed == isBotResult # <<>>

\* The login ends with the five characters [bot]
HasBotSuffix(login) ==
    \E n \in 0..Len(login) : SubSeq(login, n + 1, Len(login)) = "[bot]"

\* The two ways of writing a character of a pattern
EitherCase(c) ==
    {c} \cup {CharAt(UpperLetters, i) : i \in {j \in 1..Len(LowerLetters) : CharAt(LowerLetters, j) = c}}

\* The login starts with the pattern, letter case set aside
StartsWithEitherCase(login, pattern) ==
    /\ Len(login) >= Len(pattern)
    /\ \A i \in 1..Len(pattern) : CharAt(login, i) \in EitherCase(CharAt(pattern, i))

KnownBotPrefixes ==
    {"dependabot", "renovate", "greenkeeper", "snyk-bot", "codecov", "allcontributors"}

\* C12: isBot is true exactly of a present actor whose type is Bot, whose
\* login ends with [bot], or whose login starts with a known prefix in either
\* letter case; it is false of a missing actor
C12_IsBot ==
    IsBotComputed =>
        isBotResult[1] =
            (/\ actor # Null
             /\ \/ actor.type = "Bot"
                \/ HasBotSuffix(actor.login)
                \/ \E pattern \in KnownBotPrefixes : StartsWithEitherCase(actor.login, pattern))

\* A plain user account whose login starts with a pattern in another case
C12_Witness ==
    /\ IsBotComputed
    /\ actor = User("DEPENDABOT-preview", "User")
    /\ isBotResult[1] = TRUE

-----------------------------------------------------------------------------
(* Issue lifecycle: properties *)

\* The positions of the comments of an issue written by a present author who
\* is no bot
HumanComments(item) ==
    {k \in DOMAIN item.comments :
        item.comments[k].user # Null /\ ~isBot(item.comments[k].user)}

\* The issue without its bot-authored and author-less comments
WithoutBotComments(item) ==
    [item EXCEPT !.comments =
        SelectSeq(item.comments, LAMBDA c : c.user # Null /\ ~isBot(c.user))]

FirstResponseMediansAreZero ==
    /\ IL.medianTimeToFirstResponse = Num(0)
    /\ IL.medianTimeToFirstMeaningfulResponse = Num(0)
    /\ \A k \in DOMAIN IL.timeSeries : IL.timeSeries[k].medianTimeToFirstResponse = Num(0)

\* C13: removing the bot-authored and author-less comments of every issue
\* changes no output of the issue lifecycle analyzer, and a batch whose issues
\* have no other comments yields no response sample
C13_BotCommentsIgnored ==
    LifecycleComputed =>
        /\ calculateIssueLifecycleMetrics(
               [k \in DOMAIN issues |-> WithoutBotComments(issues[k])], timeRange, now) = IL
        /\ (\A k \in DOMAIN issues : HumanComments(issues[k]) = {})
               => FirstResponseMediansAreZero

\* An issue whose first human comment, six hours after creation, follows a
\* comment by dependabot-preview one hour after creation
C13_Witness ==
    /\ LifecycleComputed
    /\ Len(issues) = 1
    /\ Len(issues[1].comments) = 2
    /\ issues[1].comments[1].user.login = "dependabot-preview"
    /\ HumanComments(issues[1]) = {2}
    /\ IL.medianTimeToFirstResponse = Num(6)
    /\ IL.medianTimeToFirstMeaningfulResponse = Num(6)

\* The hours from the creation of an issue to its earliest comment by a
\* present, non-bot author: <<hours>>, or <<>> when there is no such comment or
\* the hours are negative
EarliestResponse(item) ==
    IF HumanComments(item) = {} THEN <<>>
    ELSE LET k == CHOOSE i \in HumanComments(item) :
                    \A j \in HumanComments(item) :
                        parseISO(item.comments[i].created_at)
                            <= parseISO(item.comments[j].created_at)
             hours == HoursAfterCreation(item.comments[k].created_at, item.issue.created_at)
         IN  IF hours >= 0 THEN <<hours>> ELSE <<>>

RECURSIVE Flatten(_)
Flatten(ss) == IF ss = <<>> THEN <<>> ELSE Head(ss) \o Flatten(Tail(ss))

EarliestResponses(items) == Flatten([k \in DOMAIN items |-> EarliestResponse(items[k])])

\* C14: whatever the order of the comment lists, the first-response median of
\* the batch and of every time-series bucket is taken over the hours to the
\* earliest human comment of each issue
C14_EarliestHumanComment ==
    LifecycleComputed =>
        /\ IL.medianTimeToFirstResponse = median(EarliestResponses(issues))
        /\ \A k \in DOMAIN IL.timeSeries :
              IL.timeSeries[k].medianTimeToFirstResponse =
                  median(EarliestResponses(
                      SelectSeq(issues, LAMBDA i : bucketOf(i, timeRange) = IL.timeSeries[k].date)))

\* One issue whose comment list names a comment made nine hours after creation
\* before one made six hours after creation
C14_Witness ==
    /\ LifecycleComputed
    /\ Len(issues) = 1
    /\ HumanComments(issues[1]) = {1, 2}
    /\ parseISO(issues[1].comments[2].created_at) < parseISO(issues[1].comments[1].created_at)
    /\ EarliestResponse(issues[1]) = <<6>>
    /\ IL.medianTimeToFirstResponse = Num(9)

\* The positions of the events of one kind in the event list of an issue
EventsOfKind(item, kind) == {k \in DOMAIN item.events : item.events[k].event = kind}

\* The timestamp, in minutes, of the first listed event of a kind that occurs
FirstStamp(item, kind) ==
    parseISO(item.events[CHOOSE k \in EventsOfKind(item, kind) :
                            \A j \in EventsOfKind(item, kind) : k <= j].created_at)

\* The hours from creation to the smaller of the first labeled and the first
\* assigned timestamp: <<hours>>, or <<>> without such an event or when the
\* hours are negative
ExpectedTriage(item) ==
    LET kinds == {kind \in {"labeled", "assigned"} : EventsOfKind(item, kind) # {}}
    IN  IF kinds = {} THEN <<>>
        ELSE LET stamp == CHOOSE t \in {FirstStamp(item, kind) : kind \in kinds} :
                              \A kind \in kinds : t <= FirstStamp(item, kind)
                 hours == Trunc(stamp - parseISO(item.issue.created_at), MinutesPerHour)
             IN  IF hours >= 0 THEN <<hours>> ELSE <<>>

\* C15: the triage median is taken over the hours from creation to the earlier
\* of the first labeled and the first assigned event of each issue
C15_TimeToTriage ==
    LifecycleComputed =>
        IL.medianTimeToTriage =
            median(Flatten([k \in DOMAIN issues |-> ExpectedTriage(issues[k])]))

\* One issue assigned two hours and labeled four hours after its creation,
\* the assignment listed first
C15_Witness ==
    /\ LifecycleComputed
    /\ Len(issues) = 1
    /\ EventsOfKind(issues[1], "labeled") # {}
    /\ EventsOfKind(issues[1], "assigned") # {}
    /\ FirstStamp(issues[1], "assigned") < FirstStamp(issues[1], "labeled")
    /\ IL.medianTimeToTriage = Num(2)

\* The issues of the batch with a reopened event and a closing time
ReopenedIssues ==
    {k \in DOMAIN issues :
        /\ EventsOfKind(issues[k], "reopened") # {}
        /\ issues[k].issue.closed_at # Null}

\* C16: the reopened rate is the percentage of all issues of the batch that
\* have a reopened event and a closing time
C16_ReopenedRate ==
    LifecycleComputed =>
        IL.reopenedIssueRate = PercentOf(ReopenedIssues, Len(issues))

\* Two issues, one of them closed and reopened twice: it is counted once
C16_Witness ==
    /\ LifecycleComputed
    /\ Len(issues) = 2
    /\ Cardinality(EventsOfKind(issues[1], "reopened")) = 2
    /\ issues[1].issue.closed_at # Null
    /\ EventsOfKind(issues[2], "reopened") = {}
    /\ IL.reopenedIssueRate = Num(50)

\* The open issues of the batch older than the given number of whole days
OpenIssuesOlderThan(days) ==
    {k \in DOMAIN issues :
        /\ issues[k].issue.state = "open"
        /\ Trunc(now - parseISO(issues[k].issue.created_at), MinutesPerDay) > days}

\* C17: each staleness rate is the percentage, over the whole batch, of the
\* open issues older than its number of days, so the three rates decrease
C17_StaleRates ==
    LifecycleComputed =>
        /\ IL.staleIssueRate.after30Days = PercentOf(OpenIssuesOlderThan(30), Len(issues))
        /\ IL.staleIssueRate.after60Days = PercentOf(OpenIssuesOlderThan(60), Len(issues))
        /\ IL.staleIssueRate.after90Days = PercentOf(OpenIssuesOlderThan(90), Len(issues))
        /\ RLeq(IL.staleIssueRate.after90Days, IL.staleIssueRate.after60Days)
        /\ RLeq(IL.staleIssueRate.after60Days, IL.staleIssueRate.after30Days)

\* Four open issues aged 10, 40, 70 and 100 days
C17_Witness ==
    /\ LifecycleComputed
    /\ Len(issues) = 4
    /\ \A k \in DOMAIN issues : issues[k].issue.state = "open"
    /\ IL.staleIssueRate.after30Days = Num(75)
    /\ IL.staleIssueRate.after60Days = Num(50)
    /\ IL.staleIssueRate.after90Days = Num(25)

-----------------------------------------------------------------------------
(* Time series: properties *)

DaysPerWeek == 7

\* The bucket key of an issue: midnight of its creation day for the windows
\* 1week and 1month, midnight of the Sunday on or before it otherwise
ExpectedBucketKey(item) ==
    LET day == item.issue.created_at.d
    IN  IF timeRange \in {"1week", "1month"} THEN Iso(day, 0)
        ELSE Iso(day - (day % DaysPerWeek), 0)

IssuesOfBucket(key) == {k \in DOMAIN issues : ExpectedBucketKey(issues[k]) = key}

KeyBefore(a, b) == a.d < b.d \/ (a.d = b.d /\ a.m < b.m)

RECURSIVE SumOver(_, _)
SumOver(f, S) ==
    IF S = {} THEN 0
    ELSE LET x == CHOOSE y \in S : TRUE IN f[x] + SumOver(f, S \ {x})

\* C18: the time series has one entry per bucket key that occurs, in strictly
\* ascending key order; each entry counts the issues of its bucket and those of
\* them whose state is closed, and the counts of created issues sum to the
\* size of the batch
C18_TimeSeries ==
    LifecycleComputed =>
        LET series == IL.timeSeries
        IN  /\ {series[k].date : k \in DOMAIN series}
                   = {ExpectedBucketKey(issues[k]) : k \in DOMAIN issues}
            /\ \A i, j \in DOMAIN series : i < j => KeyBefore(series[i].date, series[j].date)
            /\ \A k \in DOMAIN series :
                  /\ series[k].issuesCreated = Cardinality(IssuesOfBucket(series[k].date))
                  /\ series[k].issuesClosed =
                         Cardinality({i \in IssuesOfBucket(series[k].date) :
                                         issues[i].issue.state = "closed"})
                  /\ series[k].issuesCreated >= 1
                  /\ series[k].issuesClosed <= series[k].issuesCreated
            /\ SumOver([k \in DOMAIN series |-> series[k].issuesCreated], DOMAIN series)
                   = Len(issues)

\* Two issues created on different days of one week, the later one listed
\* first and closed: two daily buckets in ascending order
C18_Witness ==
    /\ LifecycleComputed
    /\ timeRange = "1week"
    /\ Len(issues) = 2
    /\ issues[1].issue.created_at.d > issues[2].issue.created_at.d
    /\ issues[1].issue.created_at.d - issues[2].issue.created_at.d < DaysPerWeek
    /\ issues[1].issue.state = "closed"
    /\ Len(IL.timeSeries) = 2
    /\ IL.timeSeries[2].date = Iso(issues[1].issue.created_at.d, 0)
    /\ IL.timeSeries[2].issuesClosed = 1
    /\ IL.timeSeries[1].issuesClosed = 0

-----------------------------------------------------------------------------
(* Reviewer insights: properties *)

\* The PRs of the batch without a review by a present, non-bot author
UnreviewedOfBatch == {k \in DOMAIN prs : HumanReviewsOf(prs[k].reviews) = {}}

MergedUnreviewed == {k \in UnreviewedOfBatch : prs[k].pr.merged}

ClosedUnreviewed ==
    {k \in UnreviewedOfBatch : ~prs[k].pr.merged /\ prs[k].pr.state = "closed"}

\* C19: prsMergedWithoutReview counts the merged PRs without human review and
\* prsClosedWithoutReview the closed, unmerged ones; open PRs and PRs with a
\* human review are in neither count
C19_WithoutReviewCounts ==
    ReviewerComputed =>
        /\ RI.totalPRs = Len(prs)
        /\ RI.prsMergedWithoutReview = Cardinality(MergedUnreviewed)
        /\ RI.prsClosedWithoutReview = Cardinality(ClosedUnreviewed)
        /\ MergedUnreviewed \cap ClosedUnreviewed = {}
        /\ RI.prsMergedWithoutReview + RI.prsClosedWithoutReview <= RI.totalPRs

\* A merged PR reviewed only by a bot beside a PR closed without any review
C19_Witness ==
    /\ ReviewerComputed
    /\ Len(prs) = 2
    /\ prs[1].pr.merged
    /\ Len(prs[1].reviews) = 1
    /\ 1 \in UnreviewedOfBatch
    /\ 2 \in ClosedUnreviewed
    /\ RI.prsMergedWithoutReview = 1
    /\ RI.prsClosedWithoutReview = 1

\* The submission time, in minutes, of the earliest human review of a PR that
\* has one
EarliestReview(item) ==
    LET stamps == {parseISO(item.reviews[k].submitted_at) : k \in HumanReviewsOf(item.reviews)}
    IN  CHOOSE t \in stamps : \A u \in stamps : t <= u

\* Whole hours from one time to a later one, kept when not negative
HoursKept(from, to) ==
    LET hours == Trunc(to - from, MinutesPerHour)
    IN  IF hours >= 0 THEN <<hours>> ELSE <<>>

ExpectedFirstReview(item) ==
    IF HumanReviewsOf(item.reviews) = {} THEN <<>>
    ELSE HoursKept(parseISO(item.pr.created_at), EarliestReview(item))

ExpectedReviewToMerge(item) ==
    IF HumanReviewsOf(item.reviews) = {} \/ ~item.pr.merged \/ item.pr.merged_at = Null
    THEN <<>>
    ELSE HoursKept(EarliestReview(item), parseISO(item.pr.merged_at))

\* C20: the first review of a PR is its human review with the smallest
\* submission time, whatever the order of the list; the two medians are taken
\* over the hours from creation to it and, for merged PRs, from it to the merge
C20_FirstReviewMedians ==
    ReviewerComputed =>
        /\ RI.medianTimeToFirstReview =
               median(Flatten([k \in DOMAIN prs |-> ExpectedFirstReview(prs[k])]))
        /\ RI.medianTimeFromReviewToMerge =
               median(Flatten([k \in DOMAIN prs |-> ExpectedReviewToMerge(prs[k])]))

\* One merged PR whose review list names a review made eight hours after
\* creation before one made two hours after creation
C20_Witness ==
    /\ ReviewerComputed
    /\ Len(prs) = 1
    /\ prs[1].pr.merged
    /\ Len(prs[1].reviews) = 2
    /\ HumanReviewsOf(prs[1].reviews) = {1, 2}
    /\ parseISO(prs[1].reviews[2].submitted_at) < parseISO(prs[1].reviews[1].submitted_at)
    /\ RI.medianTimeToFirstReview = Num(2)
    /\ RI.medianTimeFromReviewToMerge = Num(28)

-----------------------------------------------------------------------------
(* Reviewer statistics: properties *)

\* The human reviews of the batch, each as <<PR position, review position>>
HumanReviewsOfBatch ==
    UNION {{<<k, j>> : j \in HumanReviewsOf(prs[k].reviews)} : k \in DOMAIN prs}

ReviewsBy(login) ==
    {p \in HumanReviewsOfBatch : prs[p[1]].reviews[p[2]].user.login = login}

DismissalsBy(login) ==
    {p \in ReviewsBy(login) : prs[p[1]].reviews[p[2]].state = "DISMISSED"}

HumanReviewers ==
    {prs[p[1]].reviews[p[2]].user.login : p \in HumanReviewsOfBatch}

LeaderboardOf(entries) == {entries[k].username : k \in DOMAIN entries}

\* C21: prsReviewed of a reviewer is the number of human reviews the reviewer
\* wrote in the batch, and the three disposition counters add up to that
\* number less the reviewer's dismissed reviews
C21_ReviewerCounters ==
    ReviewerComputed =>
        /\ LeaderboardOf(RI.topReviewers) \subseteq HumanReviewers
        /\ Cardinality(HumanReviewers) <= TopListLength
               => LeaderboardOf(RI.topReviewers) = HumanReviewers
        /\ \A k \in DOMAIN RI.topReviewers :
               LET e == RI.topReviewers[k]
               IN  /\ e.prsReviewed = Cardinality(ReviewsBy(e.username))
                   /\ e.approvals + e.changesRequested + e.commentsOnly
                          = e.prsReviewed - Cardinality(DismissalsBy(e.username))

\* One PR reviewed three times by bob, one of the three dismissed
C21_Witness ==
    /\ ReviewerComputed
    /\ Len(prs) = 1
    /\ Cardinality(ReviewsBy("bob")) = 3
    /\ Cardinality(DismissalsBy("bob")) = 1
    /\ \E k \in DOMAIN RI.topReviewers :
           /\ RI.topReviewers[k].username = "bob"
           /\ RI.topReviewers[k].prsReviewed = 3
           /\ RI.topReviewers[k].approvals = 1
           /\ RI.topReviewers[k].changesRequested = 0
           /\ RI.topReviewers[k].commentsOnly = 1

\* The PRs of the batch whose earliest human review was written by the login
FirstReviewedBy(login) ==
    {k \in DOMAIN prs :
        \E j \in HumanReviewsOf(prs[k].reviews) :
            /\ prs[k].reviews[j].user.login = login
            /\ parseISO(prs[k].reviews[j].submitted_at) = EarliestReview(prs[k])}

\* Whole hours from the creation of a PR to its earliest human review
HoursToEarliestReview(item) ==
    Trunc(EarliestReview(item) - parseISO(item.pr.created_at), MinutesPerHour)

MeanHoursToEarliestReview(login) ==
    LET firsts == FirstReviewedBy(login)
    IN  IF firsts = {} THEN Num(0)
        ELSE Frac(SumOver([k \in firsts |-> HoursToEarliestReview(prs[k])], firsts),
                  Cardinality(firsts))

\* One merged PR with one approving human review five hours after creation
ApprovedAfterFiveHours ==
    /\ Len(prs) = 1
    /\ prs[1].pr.merged
    /\ Len(prs[1].reviews) = 1
    /\ HumanReviewsOf(prs[1].reviews) = {1}
    /\ prs[1].reviews[1].state = "APPROVED"
    /\ MinutesAfterCreation(prs[1].reviews[1].submitted_at, prs[1].pr.created_at)
           = 5 * MinutesPerHour

\* C22: avgTimeToFirstReview of a reviewer is the mean time to first review of
\* the PRs whose earliest human review the reviewer wrote, 0 when there is no
\* such PR; the reviewer's later reviews add nothing.  One merged PR approved
\* after five hours gives prsReviewed 1, approvals 1, an average of 5 and no
\* PR merged without review
C22_AverageOverFirstReviews ==
    ReviewerComputed =>
        /\ \A k \in DOMAIN RI.topReviewers :
               RI.topReviewers[k].avgTimeToFirstReview
                   = MeanHoursToEarliestReview(RI.topReviewers[k].username)
        /\ ApprovedAfterFiveHours =>
               /\ Len(RI.topReviewers) = 1
               /\ RI.topReviewers[1].username = prs[1].reviews[1].user.login
               /\ RI.topReviewers[1].prsReviewed = 1
               /\ RI.topReviewers[1].approvals = 1
               /\ RI.topReviewers[1].avgTimeToFirstReview = Num(5)
               /\ RI.prsMergedWithoutReview = 0

\* Two PRs: on one bob reviews first and twice more while carol reviews in
\* between, on the other bob's review is listed second but is the earliest
C22_Witness ==
    /\ ReviewerComputed
    /\ Len(prs) = 2
    /\ FirstReviewedBy("bob") = {1, 2}
    /\ FirstReviewedBy("carol") = {}
    /\ Cardinality(ReviewsBy("bob")) = 4
    /\ Cardinality(ReviewsBy("carol")) = 3
    /\ \E k \in DOMAIN RI.topReviewers :
           /\ RI.topReviewers[k].username = "bob"
           /\ RI.topReviewers[k].avgTimeToFirstReview = Frac(3, 2)
    /\ \E k \in DOMAIN RI.topReviewers :
           /\ RI.topReviewers[k].username = "carol"
           /\ RI.topReviewers[k].avgTimeToFirstReview = Num(0)

\* The scenario of one merged PR approved after five hours has been computed
C22_ScenarioReached == ReviewerComputed /\ ApprovedAfterFiveHours

-----------------------------------------------------------------------------
(* Leaderboards: properties *)

PRsBy(login) == {k \in DOMAIN prs : prs[k].pr.user.login = login}

\* An optional size field, counted as 0 when the PR record lacks it
SizeOrZero(x) == IF x = Absent THEN 0 ELSE x

CommitsBy(login) ==
    SumOver([k \in PRsBy(login) |-> SizeOrZero(prs[k].pr.commits)], PRsBy(login))

AdditionsBy(login) ==
    SumOver([k \in PRsBy(login) |-> SizeOrZero(prs[k].pr.additions)], PRsBy(login))

DeletionsBy(login) ==
    SumOver([k \in PRsBy(login) |-> SizeOrZero(prs[k].pr.deletions)], PRsBy(login))

Smaller(a, b) == IF a < b THEN a ELSE b

\* A leaderboard of the logins ranked by score: at most ten entries, one per
\* login, in non-increasing order of score, nobody left out scoring higher
\* than somebody listed
IsLeaderboard(entries, logins, score) ==
    /\ Len(entries) = Smaller(Cardinality(logins), TopListLength)
    /\ LeaderboardOf(entries) \subseteq logins
    /\ \A j, k \in DOMAIN entries : j # k => entries[j].username # entries[k].username
    /\ \A j, k \in DOMAIN entries :
           j < k => score[entries[j].username] >= score[entries[k].username]
    /\ \A out \in logins \ LeaderboardOf(entries) :
           \A k \in DOMAIN entries : score[out] <= score[entries[k].username]

\* C23: topReviewers ranks the reviewers by prsReviewed and topContributors the
\* authors by summed commits, each keeping the ten highest; a contributor
\* entry sums commits, additions and deletions with absent fields as 0 and
\* has netLines = additions - deletions
C23_Leaderboards ==
    ReviewerComputed =>
        /\ IsLeaderboard(RI.topReviewers, HumanReviewers,
                         [l \in HumanReviewers |-> Cardinality(ReviewsBy(l))])
        /\ \A k \in DOMAIN RI.topReviewers :
               RI.topReviewers[k].prsReviewed
                   = Cardinality(ReviewsBy(RI.topReviewers[k].username))
        /\ IsLeaderboard(RI.topContributors, PRAuthors,
                         [l \in PRAuthors |-> CommitsBy(l)])
        /\ \A k \in DOMAIN RI.topContributors :
               LET e == RI.topContributors[k]
               IN  /\ e.commits = CommitsBy(e.username)
                   /\ e.additions = AdditionsBy(e.username)
                   /\ e.deletions = DeletionsBy(e.username)
                   /\ e.netLines = e.additions - e.deletions

\* Eleven authors and eleven reviewers: the last of them, with the most
\* commits and the most reviews, leads both boards and one login is left out
\* of each
C23_Witness ==
    /\ ReviewerComputed
    /\ Cardinality(PRAuthors) = TopListLength + 1
    /\ Cardinality(HumanReviewers) = TopListLength + 1
    /\ Len(RI.topReviewers) = TopListLength
    /\ Len(RI.topContributors) = TopListLength
    /\ RI.topReviewers[1].username = "kim"
    /\ RI.topReviewers[1].prsReviewed = 3
    /\ "jo" \notin LeaderboardOf(RI.topReviewers)
    /\ RI.topContributors[1].username = "kim"
    /\ RI.topContributors[1].commits = 11
    /\ RI.topContributors[1].netLines = 107
    /\ RI.topContributors[2].netLines = 100
    /\ "ann" \notin LeaderboardOf(RI.topContributors)

-----------------------------------------------------------------------------
(* Contributor friction: properties *)

\* The ways of picking, for every author, one PR with the minimum creation
\* time among the author's PRs of the batch
EarliestPRChoices ==
    {f \in [PRAuthors -> DOMAIN prs] :
        \A a \in PRAuthors :
            /\ f[a] \in PRsBy(a)
            /\ \A k \in PRsBy(a) :
                   parseISO(prs[f[a]].pr.created_at) <= parseISO(prs[k].pr.created_at)}

MergedAmong(S) == {k \in S : prs[k].pr.merged}

\* C24: each author has exactly one first-time PR, one with the minimum
\* creation time among the author's PRs, wherever it stands in the batch, and
\* every other PR is returning
C24_FirstTimeClassification ==
    FrictionComputed =>
        /\ CF.firstTimePRs + CF.returningPRs = Len(prs)
        /\ CF.firstTimePRs = Cardinality(PRAuthors)
        /\ \E f \in EarliestPRChoices :
               LET first == {f[a] : a \in PRAuthors}
                   returning == (DOMAIN prs) \ first
               IN  /\ CF.firstTimeMergeRate = PercentOf(MergedAmong(first), Cardinality(first))
                   /\ CF.returningMergeRate
                          = PercentOf(MergedAmong(returning), Cardinality(returning))

\* Two PRs by one author, the merged one listed first but created later:
\* the unmerged second PR is the first-time one
C24_Witness ==
    /\ FrictionComputed
    /\ Len(prs) = 2
    /\ Cardinality(PRAuthors) = 1
    /\ parseISO(prs[2].pr.created_at) < parseISO(prs[1].pr.created_at)
    /\ prs[1].pr.merged /\ ~prs[2].pr.merged
    /\ CF.firstTimePRs = 1
    /\ CF.returningPRs = 1
    /\ CF.firstTimeMergeRate = Num(0)
    /\ CF.returningMergeRate = Num(100)

\* The number of reviews of a PR that request changes and have a present
\* author who is not a bot
ChangeRequestsOf(item) ==
    Cardinality({j \in HumanReviewsOf(item.reviews) :
                    item.reviews[j].state = "CHANGES_REQUESTED"})

\* The values of f over the set S, listed in some order
RECURSIVE ListOver(_, _)
ListOver(f, S) ==
    IF S = {} THEN <<>>
    ELSE LET x == CHOOSE y \in S : TRUE IN <<f[x]>> \o ListOver(f, S \ {x})

\* C25: firstTimeMedianReviewCycles is the median, over the first-time PRs, of
\* the number of change requests by present non-bot reviewers; a first-time PR
\* without any counts as 0, and without first-time PRs the result is 0
C25_ReviewCycles ==
    FrictionComputed =>
        /\ Len(prs) = 0 => CF.firstTimeMedianReviewCycles = Num(0)
        /\ \E f \in EarliestPRChoices :
               LET first == {f[a] : a \in PRAuthors}
               IN  CF.firstTimeMedianReviewCycles
                       = median(ListOver([k \in first |-> ChangeRequestsOf(prs[k])], first))

\* Two first-time PRs: one with change requests only from a bot and from a
\* review without author, one with two human change requests and one by a bot
C25_Witness ==
    /\ FrictionComputed
    /\ Len(prs) = 2
    /\ CF.firstTimePRs = 2
    /\ Len(prs[1].reviews) = 2
    /\ \A j \in DOMAIN prs[1].reviews : prs[1].reviews[j].state = "CHANGES_REQUESTED"
    /\ ChangeRequestsOf(prs[1]) = 0
    /\ ChangeRequestsOf(prs[2]) = 2
    /\ CF.firstTimeMedianReviewCycles = Num(1)

-----------------------------------------------------------------------------
(* Missing nested data: properties *)

LifecycleFields ==
    {"medianTimeToFirstResponse", "medianTimeToFirstMeaningfulResponse",
     "medianTimeToTriage", "medianTimeToResolution", "staleIssueRate",
     "reopenedIssueRate", "timeSeries"}

ReviewerFields ==
    {"totalPRs", "medianTimeToFirstReview", "medianTimeFromReviewToMerge",
     "prsMergedWithoutReview", "prsClosedWithoutReview", "topReviewers",
     "topContributors"}

FrictionFields ==
    {"firstTimePRs", "returningPRs", "firstTimeMergeRate", "returningMergeRate",
     "firstTimeMedianTimeToReview", "returningMedianTimeToReview",
     "firstTimeMedianReviewCycles", "firstTimeIssuesWithoutPR"}

BacklogFields == {"score", "label", "issues", "pullRequests"}

\* A JavaScript number that is neither NaN nor infinite
IsFiniteNumber(x) == DOMAIN x = {"s", "m", "e"} /\ x.s \in {1, -1}

\* An issue fetched without comments and events; a PR fetched without reviews
IsBareIssue(item) == item.comments = <<>> /\ item.events = <<>>
IsBarePR(item) == item.reviews = <<>>

LacksSizes(item) ==
    item.pr.commits = Absent /\ item.pr.additions = Absent /\ item.pr.deletions = Absent

\* The issues, and the PRs, that came with nested data
IssuesWithData == SelectSeq(issues, LAMBDA item : ~IsBareIssue(item))
PRsWithData == SelectSeq(prs, LAMBDA item : ~IsBarePR(item))

\* C26: with empty comments, events and reviews and absent size fields every
\* analyzer still returns its whole record; the items without nested data add
\* no sample to the response, triage and review medians, and when no item has
\* nested data those medians are 0 and topReviewers is empty
C26_MissingNestedData ==
    /\ LifecycleComputed =>
           LET r == calculateIssueLifecycleMetrics(IssuesWithData, timeRange, now)
           IN  /\ DOMAIN IL = LifecycleFields
               /\ IsFiniteNumber(IL.medianTimeToResolution)
               /\ IL.medianTimeToFirstResponse = r.medianTimeToFirstResponse
               /\ IL.medianTimeToFirstMeaningfulResponse
                      = r.medianTimeToFirstMeaningfulResponse
               /\ IL.medianTimeToTriage = r.medianTimeToTriage
               /\ IssuesWithData = <<>> =>
                      /\ FirstResponseMediansAreZero
                      /\ IL.medianTimeToTriage = Num(0)
    /\ ReviewerComputed =>
           LET r == calculateReviewerInsightsMetrics(PRsWithData)
           IN  /\ DOMAIN RI = ReviewerFields
               /\ RI.medianTimeToFirstReview = r.medianTimeToFirstReview
               /\ RI.medianTimeFromReviewToMerge = r.medianTimeFromReviewToMerge
               /\ RI.topReviewers = r.topReviewers
               /\ PRsWithData = <<>> =>
                      /\ RI.medianTimeToFirstReview = Num(0)
                      /\ RI.medianTimeFromReviewToMerge = Num(0)
                      /\ RI.topReviewers = <<>>
               /\ Len(RI.topContributors) = Smaller(Cardinality(PRAuthors), TopListLength)
               /\ \A k \in DOMAIN RI.topContributors :
                      LET e == RI.topContributors[k]
                      IN  /\ e.commits >= 0 /\ e.additions >= 0 /\ e.deletions >= 0
                          /\ (\A j \in PRsBy(e.username) : LacksSizes(prs[j]))
                                 => e.commits = 0 /\ e.netLines = 0
    /\ FrictionComputed =>
           /\ DOMAIN CF = FrictionFields
           /\ IsFiniteNumber(CF.firstTimeMergeRate)
           /\ IsFiniteNumber(CF.returningMergeRate)
           /\ PRsWithData = <<>> =>
                  /\ CF.firstTimeMedianTimeToReview = Num(0)
                  /\ CF.returningMedianTimeToReview = Num(0)
                  /\ CF.firstTimeMedianReviewCycles = Num(0)
    /\ BacklogComputed =>
           /\ DOMAIN BH = BacklogFields
           /\ IsFiniteNumber(BH.score)
           /\ (\A k \in DOMAIN allPRs : allPRs[k].reviews = <<>>)
                  => BH.pullRequests.withoutReview = Len(openPRs)

\* Two PRs, both without reviews and without size fields, have been analyzed
C26_Witness ==
    /\ ReviewerComputed
    /\ Len(prs) = 2
    /\ \A k \in DOMAIN prs : IsBarePR(prs[k]) /\ LacksSizes(prs[k])
    /\ RI.medianTimeToFirstReview = Num(0)
    /\ RI.topReviewers = <<>>
    /\ \A k \in DOMAIN RI.topContributors : RI.topContributors[k].commits = 0

\* Two issues, one without comments and events and one answered after six
\* hours, have been analyzed
C26_MixedBatchReached ==
    /\ LifecycleComputed
    /\ Len(issues) = 2
    /\ IsBareIssue(issues[1])
    /\ ~IsBareIssue(issues[2])
    /\ IL.medianTimeToFirstResponse = Num(6)

-----------------------------------------------------------------------------
(* Arguments of the analyzers: properties *)

\* The lists the route holds, their nested lists with them, are after the step
\* what they were before it
ArgumentsKept ==
    /\ issues' = issues
    /\ prs' = prs
    /\ openIssues' = openIssues
    /\ openPRs' = openPRs
    /\ allPRs' = allPRs
    /\ issuesData' = issuesData

\* Every result held is what the analyzer returns when run now on what the
\* fetched batch holds for the window
RerunGivesSameResults ==
    /\ LifecycleComputed =>
           IL = calculateIssueLifecycleMetrics(filteredIssuesData(timeRange), timeRange, now)
    /\ ReviewerComputed =>
           RI = calculateReviewerInsightsMetrics(filteredPRsData(timeRange))
    /\ FrictionComputed =>
           CF = calculateContributorFrictionMetrics(filteredPRsData(timeRange),
                                                    filteredIssuesData(timeRange))
    /\ BacklogComputed =>
           BH = calculateBacklogHealthMetrics(openIssuesOf(issuesData), openPRsOf(allPRs),
                                              allPRs, now)

\* sortedReviews of the first PR, as a call of calculateReviewerInsightsMetrics
\* on prs leaves it: the second array the call makes
SortedReviewsOfFirstPR ==
    LET heap == loadPRs(<<>>, prs)
    IN  calculateReviewerInsightsMetricsOnHeap(heap, newest(heap))[Len(heap) + 2]

\* C27: no call of an analyzer changes the issue list, the PR list or a nested
\* comments, events or reviews list: what the filters, copies, pushes and
\* sorts of a call leave in the arrays it was given is what they held before.
\* Only the route's going on to the next window changes what the analyzers
\* are given, the fetched batch, whose items the filtered lists share, stays
\* as it is, and every result obtained is the one a new run on the batch
\* returns
C27_ArgumentsUntouched ==
    /\ [][(SelectAnalyzer \/ ArgumentsKept) /\ UNCHANGED <<issuesData, allPRs>>]_vars
    /\ []RerunGivesSameResults

\* The four analyzers have run for the third window on a fetched batch of two
\* issues, one of them created before the window began, and two PRs of one
\* author, the newer one listed first (the author's list is out of order
\* before authorPRs.sort), the first of which lists a review made seven hours
\* after creation before the one made two hours after creation (the copy of
\* humanReviews is out of order before its sort)
C27_Witness ==
    /\ timeRange = "3months"
    /\ LifecycleComputed /\ ReviewerComputed /\ FrictionComputed /\ BacklogComputed
    /\ Len(issuesData) = 2
    /\ Len(issues) = 1
    /\ Len(allPRs) = 2
    /\ prs = allPRs
    /\ Len(prs[1].reviews) = 3
    /\ parseISO(prs[1].reviews[2].submitted_at) < parseISO(prs[1].reviews[1].submitted_at)
    /\ RI.medianTimeToFirstReview = Num(2)
    /\ SortedReviewsOfFirstPR # humanReviews(prs[1])
    /\ SortedReviewsOfFirstPR[1] = firstReview(prs[1])
    /\ prs[1].pr.user.login = prs[2].pr.user.login
    /\ parseISO(prs[2].pr.created_at) < parseISO(prs[1].pr.created_at)
    /\ CF.firstTimePRs = 1
    /\ CF.returningPRs = 1

\* The reviewer analyzer has run for the first window on the one PR of the
\* week, the other fetched PR being older
C27_NarrowWindowReached ==
    /\ timeRange = "1week"
    /\ ReviewerComputed
    /\ Len(allPRs) = 2
    /\ Len(prs) = 1
    /\ RI = calculateReviewerInsightsMetrics(<<allPRs[1]>>)

-----------------------------------------------------------------------------
(* Contributor friction and reviewer latency: properties *)

\* The median of the hours to the earliest human review over a set of PRs
MedianHoursToEarliestReview(S) ==
    median(Flatten(ListOver([k \in S |-> ExpectedFirstReview(prs[k])], S)))

\* The human reviews of the PR are listed in the order of their submission
ReviewsListedInOrder(item) ==
    \A i, j \in HumanReviewsOf(item.reviews) :
        i < j => parseISO(item.reviews[i].submitted_at) <= parseISO(item.reviews[j].submitted_at)

\* C28: whatever the order of the review lists, the friction analyzer takes,
\* for each PR with a human review, the hours from creation to the earliest
\* human review, the sample behind medianTimeToFirstReview, so that each of its
\* two medians is the median of these samples over its class of PRs
C28_SameFirstReviewLatency ==
    FrictionComputed =>
        \E f \in EarliestPRChoices :
            LET first == {f[a] : a \in PRAuthors}
            IN  /\ CF.firstTimeMedianTimeToReview = MedianHoursToEarliestReview(first)
                /\ CF.returningMedianTimeToReview
                       = MedianHoursToEarliestReview((DOMAIN prs) \ first)

\* One PR whose review list names a review made eight hours after creation
\* before the one made two hours after creation: the friction median is 8
\* where the reviewer analyzer reports 2
C28_Witness ==
    /\ FrictionComputed
    /\ Len(prs) = 1
    /\ ~ReviewsListedInOrder(prs[1])
    /\ MedianHoursToEarliestReview({1}) = Num(2)
    /\ calculateReviewerInsightsMetrics(prs).medianTimeToFirstReview = Num(2)
    /\ CF.firstTimeMedianTimeToReview = Num(8)

\* What holds: the two analyzers agree on the batches whose review lists are
\* in submission order
C28_SameLatencyWhenListedInOrder ==
    (FrictionComputed /\ \A k \in DOMAIN prs : ReviewsListedInOrder(prs[k]))
        => C28_SameFirstReviewLatency

-----------------------------------------------------------------------------
(* Analytics route: properties *)

\* The request has written the pending row and not yet the complete one
Generating(r) == requests[r].pc \in {"fetching", "setComplete"}

\* The request is past the pending check: about to generate, or generating
PastPendingCheck(r) ==
    requests[r].pc \in {"fetchRepositoryInfo", "setPending", "fetching", "setComplete"}

AllIdle == \A r \in Requests : At(r, "idle")

PendingRowVisible == unexpiredEntry(clock) # Null /\ unexpiredEntry(clock).status = "pending"

\* C29: for one repository at most one request at a time is between writing
\* the pending row and writing the complete row
C29_OneGenerationAtATime == Cardinality({r \in Requests : Generating(r)}) <= 1

\* Two requests found no row, and both have written the pending row and fetch
C29_Witness ==
    /\ PendingRowVisible
    /\ At(1, "fetching")
    /\ At(2, "fetching")

\* What holds: a request whose pending check finds an unexpired pending row is
\* answered 202 or 500 and goes no further, whether or not anybody generates
PendingRowTurnsRequestsAway ==
    [][\A r \in Requests :
          (At(r, "getCacheEntry") /\ PendingRowVisible /\ requests'[r] # requests[r])
              => /\ requests'[r].pc = "idle"
                 /\ requests'[r].response = IF isOverdue(cache) THEN 500 ELSE 202
                 /\ cache' = cache]_vars

\* The pending rows a generation can write
PendingRows ==
    {cachedRow(NoResponses, "pending", t) : t \in Instants}

\* The generation that wrote the row has failed: the row is pending and
\* unexpired and no request is being handled
FailedGeneration(row) == cache = row /\ PendingRowVisible /\ AllIdle

\* C30: after a generation has failed, leaving its pending row, a later request
\* gets past the pending check and starts a new generation before the row
\* expires
C30_FailedGenerationRecovers ==
    \A row \in PendingRows :
        FailedGeneration(row)
            ~> (clock < row.expiresAt /\ \E r \in Requests : PastPendingCheck(r))

\* The generation of request 1 failed with 429 at the start; forty minutes
\* later the row is still pending and request 2 has been answered 500
C30_Witness ==
    /\ AllIdle
    /\ PendingRowVisible
    /\ cache.cachedAt = 0
    /\ clock = 2 * PendingLimitMinutes
    /\ isOverdue(cache)
    /\ requests[1].response = 429
    /\ requests[2].response = 500

\* What holds: while a pending row is unexpired and nobody is past the pending
\* check, no step of a request and no passing of time takes a request past the
\* check or changes the row; only updateCacheStatus, which no handler calls,
\* changes it
PendingRowBlocksUntilExpiry ==
    [][(/\ PendingRowVisible
        /\ \A r \in Requests : ~PastPendingCheck(r)
        /\ ~UpdateCacheStatus)
          => (cache' = cache /\ \A r \in Requests : ~PastPendingCheck(r)')]_vars

====
